---- MODULE Spec2Model ----
(***************************************************************************)
(* lightci core engine (packages/core/src/engine.rs): one pipeline, one    *)
(* build of it.  PipelineEngine::trigger_build creates the build row and   *)
(* spawns execute_build; execute_build runs PipelineExecution::execute     *)
(* while it holds the engine's database mutex; cancel_build is called by   *)
(* concurrent callers.  Step ids are 1..numSteps, the id 0 stands for a    *)
(* dependency that names no step of the pipeline.                          *)
(***************************************************************************)
EXTENDS Integers, Sequences, FiniteSets, TLC

VARIABLES
    numSteps,        \* pipeline.steps = 1..numSteps (Vec order = id order)
    dependencies,    \* step.dependencies, as a set of ids per step
    db_build,        \* the row of the build in table builds, or NoRow
    db_lock,         \* holder of PipelineEngine.db (tokio Mutex)
    now,             \* Utc::now(), advanced by every read
    pc,              \* position of the spawned execute_build task
    ready_steps,     \* execute: local HashSet ready_steps
    executing_steps, \* PipelineExecution.executing_steps
    results,         \* PipelineExecution.results (Vec<StepResult>)
    join_set,        \* execute: the JoinSet, state of the task of each step
    joined,          \* execute: (step_id, execution_result) of the last join_next
    handed,          \* number of Executor::execute calls received per step
    exec_error,      \* the Err execute returned, "none" otherwise
    cancel_pc,       \* position of each cancel_build caller
    cancel_saw,      \* cancel_build: build.status as read by get_build
    cancel_result,   \* cancel_build: the value returned
    cancel_in_flight, \* whether cancel_build was called while a step was running
    cli_result,      \* cli PipelineConfig::validate: the value returned, "none" before
    config_result,   \* core Config::validate: the value returned, "none" before
    cycle_report,    \* the path each validator put into its cycle error message
    trigger_pc,      \* position of a later trigger_build call on the same engine
    later_build,     \* the row of the build that later call creates, or NoRow
    deadline_passed, \* per step: timeout_seconds have passed since it was handed over
    status_tx,       \* the StepStatusUpdates sent on the broadcast channel
    step_store,      \* the step statuses written to the store during the build
    rx_subscribed,   \* the broadcast Receivers that subscribe_to_updates has created
    rx_next,         \* per Receiver: the position of the next update it reads
    rx_last,         \* per Receiver: what its last recv() returned
    conv,            \* a status value and the conversions applied to it
    db_tables,       \* db.rs Database: the tables pipelines and pipeline_steps
    artifact_fs,     \* the workspace and artifact directories of one pipeline
    log_state,       \* cli Logger: its channel and the log file of one pipeline
    skip_state,      \* the failed steps whose dependents were marked Skipped
    grpc_stream,     \* the forwarding task of a gRPC SubscribeToStepUpdates stream
    cli_app,         \* CliApp: run_pipeline's position and the ExecutionTracker
    git_ops,         \* GitManager: active_operations and the clone_bare calls
    log_stream       \* LogStream: last_processed and what next() returned

vars == <<numSteps, dependencies, db_build, db_lock, now, pc, ready_steps,
          executing_steps, results, join_set, joined, handed, exec_error,
          cancel_pc, cancel_saw, cancel_result, cancel_in_flight,
          cli_result, config_result, cycle_report, trigger_pc, later_build, deadline_passed,
          status_tx, step_store, rx_subscribed, rx_next, rx_last, conv,
          db_tables, artifact_fs, log_state, skip_state, grpc_stream, cli_app,
          git_ops, log_stream>>

pipelineVars == <<numSteps, dependencies>>
executionVars == <<ready_steps, executing_steps, results, join_set, joined,
                   handed, exec_error>>
cancelVars == <<cancel_pc, cancel_saw, cancel_result, cancel_in_flight>>
validateVars == <<cli_result, config_result, cycle_report>>
triggerVars == <<trigger_pc, later_build>>
publishVars == <<status_tx, step_store>>
subscriberVars == <<rx_subscribed, rx_next, rx_last>>
componentVars == <<conv, db_tables, artifact_fs, log_state, skip_state, grpc_stream,
                   cli_app, git_ops, log_stream>>
exceptConv == <<db_tables, artifact_fs, log_state, skip_state,
    grpc_stream, cli_app, git_ops, log_stream>>
exceptTables == <<conv, artifact_fs, log_state, skip_state,
    grpc_stream, cli_app, git_ops, log_stream>>
exceptArtifacts == <<conv, db_tables, log_state, skip_state,
    grpc_stream, cli_app, git_ops, log_stream>>
exceptLogger == <<conv, db_tables, artifact_fs, skip_state,
    grpc_stream, cli_app, git_ops, log_stream>>
exceptSkip == <<conv, db_tables, artifact_fs, log_state,
    grpc_stream, cli_app, git_ops, log_stream>>
exceptGrpc == <<conv, db_tables, artifact_fs, log_state, skip_state,
    cli_app, git_ops, log_stream>>
exceptCliApp == <<conv, db_tables, artifact_fs, log_state, skip_state,
    grpc_stream, git_ops, log_stream>>
exceptGit == <<conv, db_tables, artifact_fs, log_state, skip_state,
    grpc_stream, cli_app, log_stream>>
exceptLogStream == <<conv, db_tables, artifact_fs, log_state, skip_state,
    grpc_stream, cli_app, git_ops>>
subsystemVars == <<subscriberVars, componentVars>>
engineVars == <<pipelineVars, validateVars, triggerVars, publishVars,
                subscriberVars, deadline_passed, db_build, db_lock, now, pc,
                executionVars, cancelVars>>

(***************************************************************************)
(* Bounds of the model.                                                    *)
(***************************************************************************)
MaxSteps == 2
MaxCancels == 2

StepIds == 1..MaxSteps
Callers == 1..MaxCancels
NonExistentStep == 0

(***************************************************************************)
(* Status model.                                                           *)
(***************************************************************************)
BuildStatus == {"Unspecified", "Pending", "Running", "Success", "Failed",
                "Cancelled", "TimedOut"}

\* impl From<BuildStatus> for String
BuildStatusToString(status) ==
    CASE status = "Unspecified" -> "unspecified"
      [] status = "Pending" -> "pending"
      [] status = "Running" -> "running"
      [] status = "Success" -> "success"
      [] status = "Failed" -> "failed"
      [] status = "Cancelled" -> "cancelled"
      [] status = "TimedOut" -> "timedout"

\* str::to_lowercase on the strings a status column is given here
to_lowercase(s) ==
    CASE s = "RUNNING" -> "running"
      [] s = "Success" -> "success"
      [] OTHER -> s

\* impl FromStr for BuildStatus, with From<DbBuild>'s unwrap_or(Unspecified)
BuildStatusFromStr(s) ==
    LET l == to_lowercase(s)
    IN  CASE l = "unspecified" -> "Unspecified"
          [] l = "pending" -> "Pending"
          [] l = "running" -> "Running"
          [] l = "success" -> "Success"
          [] l = "failed" -> "Failed"
          [] l = "cancelled" -> "Cancelled"
          [] l = "timedout" -> "TimedOut"
          [] OTHER -> "Unspecified"

NoRow == [status |-> "<no row>", completed_at |-> 0]
NoneTime == 0

\* Build::from(DbBuild): the status of the stored build as the engine reads it
StoredStatus == BuildStatusFromStr(db_build.status)

(***************************************************************************)
(* The pipeline and its dependency graph.                                  *)
(***************************************************************************)
Steps == 1..numSteps

RECURSIVE SortedSeq(_)
SortedSeq(S) ==
    IF S = {} THEN <<>>
    ELSE LET m == CHOOSE x \in S : \A y \in S : x <= y
         IN  <<m>> \o SortedSeq(S \ {m})

\* (variant: only the dependencies of the first step are verified)
MissingDependencyOfFirstStep ==
    1 \in Steps /\ \E d \in dependencies[1] : d \notin Steps

\* build_dependency_graph, first loop: some dependency names no step
MissingDependency ==
    \E s \in Steps : \E d \in dependencies[s] : d \notin Steps

\* build_dependency_graph: the (step.id, dep_id) its ConfigError message names,
\* the first missing dependency met in the order of the steps
MissingDependencyReport ==
    LET step == CHOOSE s \in Steps :
                    /\ \E d \in dependencies[s] : d \notin Steps
                    /\ \A t \in Steps :
                          (\E d \in dependencies[t] : d \notin Steps) => s <= t
        dep_id == CHOOSE d \in dependencies[step] :
                    /\ d \notin Steps
                    /\ \A e \in dependencies[step] : e \notin Steps => d <= e
    IN  [step |-> step, dep_id |-> dep_id]

\* build_dependency_graph: graph[d] = the steps that depend on d, in push order
DependencyGraph ==
    [d \in Steps |-> SortedSeq({s \in Steps : d \in dependencies[s]})]

RECURSIVE has_cycle(_, _, _, _), has_cycle_dependents(_, _, _, _, _)
has_cycle(node, graph, visited, stack) ==
    IF node \in stack
    THEN [found |-> TRUE, visited |-> visited, stack |-> stack]
    ELSE IF node \in visited
    THEN [found |-> FALSE, visited |-> visited, stack |-> stack]
    ELSE LET r == has_cycle_dependents(graph[node], 1, graph, visited,
                                       stack \cup {node})
         IN  IF r.found THEN r
             ELSE [found |-> FALSE, visited |-> r.visited \cup {node},
                   stack |-> r.stack \ {node}]

has_cycle_dependents(dependents, i, graph, visited, stack) ==
    IF i > Len(dependents)
    THEN [found |-> FALSE, visited |-> visited, stack |-> stack]
    ELSE LET r == has_cycle(dependents[i], graph, visited, stack)
         IN  IF r.found THEN r
             ELSE has_cycle_dependents(dependents, i + 1, graph, r.visited,
                                       r.stack)

\* (variant: the cycle check is started from the first step only)
CycleFromFirstStep(i, graph, visited) ==
    numSteps >= 1 /\ has_cycle(1, graph, visited, {}).found

\* build_dependency_graph, second loop: has_cycle from every step, the stack
\* cleared for each start, visited kept
RECURSIVE CycleFromSomeStep(_, _, _)
CycleFromSomeStep(i, graph, visited) ==
    IF i > numSteps THEN FALSE
    ELSE LET r == has_cycle(i, graph, visited, {})
         IN  IF r.found THEN TRUE
             ELSE CycleFromSomeStep(i + 1, graph, r.visited)

\* build_dependency_graph: the error it returns, "none" for Ok(graph)
build_dependency_graph ==
    IF MissingDependency THEN "missing_dependency"
    ELSE IF CycleFromSomeStep(1, DependencyGraph, {}) THEN "cycle"
    ELSE "none"

\* (variant: the filter on step.dependencies.is_empty() left out)
InitialReadyStepsUnfiltered == Steps

\* execute: the initial ready_steps, the steps without dependencies
InitialReadySteps == {s \in Steps : dependencies[s] = {}}


(***************************************************************************)
(* cli PipelineConfig::validate (packages/cli/src/config.rs).  steps is a   *)
(* HashMap keyed by step id: keys() yields the ids in an arbitrary order.  *)
(***************************************************************************)
Contains(seq, x) == \E k \in 1..Len(seq) : seq[k] = x

\* the orders in which self.steps.keys() can yield the step ids
KeyOrders ==
    {o \in [1..numSteps -> Steps] : \A i, j \in 1..numSteps : o[i] = o[j] => i = j}

\* validate_dependencies: some depends_on entry is no key of steps
validate_dependencies ==
    IF \E s \in Steps : \E dep \in dependencies[s] : dep \notin Steps
    THEN "missing_dependency" ELSE "ok"

\* detect_cycle: [err, visited, stack] after the call; on Err the stack is left
\* as it was when the error was raised
RECURSIVE detect_cycle(_, _, _), detect_cycle_deps(_, _, _, _)
detect_cycle(step_id, visited, stack) ==
    LET r == detect_cycle_deps(
                 IF step_id \in Steps THEN SortedSeq(dependencies[step_id]) ELSE <<>>,
                 1, visited \cup {step_id}, Append(stack, step_id))
    IN  IF r.err THEN r
        ELSE [err |-> FALSE, visited |-> r.visited,
              stack |-> SubSeq(r.stack, 1, Len(r.stack) - 1)]

detect_cycle_deps(deps, i, visited, stack) ==
    IF i > Len(deps) THEN [err |-> FALSE, visited |-> visited, stack |-> stack]
    ELSE IF deps[i] \notin visited
    THEN LET r == detect_cycle(deps[i], visited, stack)
         IN  IF r.err THEN r
             ELSE detect_cycle_deps(deps, i + 1, r.visited, r.stack)
    ELSE IF Contains(stack, deps[i])
    THEN [err |-> TRUE, visited |-> visited, stack |-> stack]
    ELSE detect_cycle_deps(deps, i + 1, visited, stack)

\* check_for_cycles over the keys in the given order: [result, stack], the
\* stack being what "Circular dependency detected: {stack.join(" -> ")}" prints
RECURSIVE check_for_cycles(_, _, _)
check_for_cycles(order, i, visited) ==
    IF i > Len(order) THEN [result |-> "ok", stack |-> <<>>]
    ELSE IF order[i] \in visited THEN check_for_cycles(order, i + 1, visited)
    ELSE LET r == detect_cycle(order[i], visited, <<>>)
         IN  IF r.err THEN [result |-> "cycle", stack |-> r.stack]
             ELSE check_for_cycles(order, i + 1, r.visited)

\* PipelineConfig::validate
PipelineConfig_validate(order) ==
    IF Steps = {} THEN "empty"
    ELSE IF validate_dependencies # "ok" THEN validate_dependencies
    ELSE check_for_cycles(order, 1, {}).result

(***************************************************************************)
(* core Config::validate (packages/core/src/config.rs).  Steps are looked  *)
(* up by name; a step's name is its id here.                               *)
(***************************************************************************)
name(s) == s

DuplicateStepName ==
    \E s \in Steps : Cardinality({t \in Steps : name(t) = name(s)}) > 1

\* detect_cycles: [cycle, visited, stack]; cycle = <<>> stands for None
RECURSIVE detect_cycles(_, _, _), detect_cycles_deps(_, _, _, _)
detect_cycles(step, visited, stack) ==
    IF Contains(stack, name(step))
    THEN LET cycle_start == CHOOSE k \in 1..Len(stack) :
                                /\ stack[k] = name(step)
                                /\ \A j \in 1..(k - 1) : stack[j] # name(step)
         IN  [cycle |-> Append(SubSeq(stack, cycle_start, Len(stack)), name(step)),
              visited |-> visited, stack |-> stack]
    ELSE IF name(step) \in visited
    THEN [cycle |-> <<>>, visited |-> visited, stack |-> stack]
    ELSE LET r == detect_cycles_deps(SortedSeq(dependencies[step]), 1,
                                     visited \cup {name(step)},
                                     Append(stack, name(step)))
         IN  IF r.cycle # <<>> THEN r
             ELSE [cycle |-> <<>>, visited |-> r.visited,
                   stack |-> SubSeq(r.stack, 1, Len(r.stack) - 1)]

detect_cycles_deps(deps, i, visited, stack) ==
    IF i > Len(deps) THEN [cycle |-> <<>>, visited |-> visited, stack |-> stack]
    ELSE IF \E t \in Steps : name(t) = deps[i]
    THEN LET dep_step == CHOOSE t \in Steps :
                             name(t) = deps[i] /\ \A u \in Steps : name(u) = deps[i] => t <= u
             r == detect_cycles(dep_step, visited, stack)
         IN  IF r.cycle # <<>> THEN r
             ELSE detect_cycles_deps(deps, i + 1, r.visited, r.stack)
    ELSE detect_cycles_deps(deps, i + 1, visited, stack)

\* Config::validate, the loop over the steps: the cycle of the first step, in
\* Vec order, for which detect_cycles returns Some; <<>> when there is none
ConfigCycle ==
    IF \E s \in Steps : detect_cycles(s, {}, <<>>).cycle # <<>>
    THEN LET first == CHOOSE s \in Steps :
                          /\ detect_cycles(s, {}, <<>>).cycle # <<>>
                          /\ \A t \in Steps :
                                detect_cycles(t, {}, <<>>).cycle # <<>> => s <= t
         IN  detect_cycles(first, {}, <<>>).cycle
    ELSE <<>>

\* Config::validate
Config_validate ==
    IF DuplicateStepName THEN "duplicate_name"
    ELSE IF \E s \in Steps : \E dep \in dependencies[s] :
                ~ \E t \in Steps : name(t) = dep
    THEN "missing_dependency"
    ELSE IF \E s \in Steps : detect_cycles(s, {}, <<>>).cycle # <<>>
    THEN "cycle"
    ELSE "ok"

(***************************************************************************)
(* PipelineExecution: results and the handling of one completed step.      *)
(***************************************************************************)
Outcomes == {"OkSuccess", "OkFailed", "Err"}
NoJoin == [step_id |-> 0, execution_result |-> "none"]
NewV4 == -1

\* the status field of the StepResult an Ok outcome carries
OutcomeStatus(o) == IF o = "OkSuccess" THEN "Success" ELSE "Failed"

\* self.results.iter().position(|r| r.step_id == step_id); 0 stands for None
position(res, step_id) ==
    IF \E k \in 1..Len(res) : res[k].step_id = step_id
    THEN CHOOSE k \in 1..Len(res) :
            /\ res[k].step_id = step_id
            /\ \A j \in 1..(k - 1) : res[j].step_id # step_id
    ELSE 0

\* results.iter().any(|r| r.step_id == id && r.status == status)
HasStatus(res, id, status) ==
    \E k \in 1..Len(res) : res[k].step_id = id /\ res[k].status = status

HasResult(res, id) == \E k \in 1..Len(res) : res[k].step_id = id

\* Uuid::parse_str(step_id).unwrap_or_else(|_| Uuid::new_v4())
parse_or_new_v4(step_id, uuid_ids) ==
    IF step_id \in uuid_ids THEN step_id ELSE NewV4

RECURSIVE mark_step_and_dependents_skipped(_, _, _, _), mark_dependents(_, _, _, _, _)
mark_step_and_dependents_skipped(step_id, graph, res, uuid_ids) ==
    LET pushed == Append(res, [step_id |-> parse_or_new_v4(step_id, uuid_ids),
                               status |-> "Skipped"])
    IN  mark_dependents(graph[step_id], 1, graph, pushed, uuid_ids)

mark_dependents(dependents, i, graph, res, uuid_ids) ==
    IF i > Len(dependents) THEN res
    ELSE LET d == dependents[i]
             next == IF HasResult(res, d) THEN res
                     ELSE mark_step_and_dependents_skipped(d, graph, res, uuid_ids)
         IN  mark_dependents(dependents, i + 1, graph, next, uuid_ids)

\* execute, Err arm: every dependent of the failed step is marked, unchecked
RECURSIVE skip_dependents(_, _, _, _, _)
skip_dependents(dependents, i, graph, res, uuid_ids) ==
    IF i > Len(dependents) THEN res
    ELSE skip_dependents(dependents, i + 1, graph,
            mark_step_and_dependents_skipped(dependents[i], graph, res, uuid_ids),
            uuid_ids)

\* the ids of this pipeline's steps that parse as UUIDs: the gRPC create_pipeline
\* names the steps "step-1", "step-2", ...
UuidStepIds == {}

\* execute, Ok arm: the dependents whose dependencies all have a Success result
NewlyReady(step_id, graph, res) ==
    {d \in Steps :
        /\ \E k \in 1..Len(graph[step_id]) : graph[step_id][k] = d
        /\ \A dep \in dependencies[d] : HasStatus(res, dep, "Success")}

\* execute, end-of-batch check: the steps with a Success, Failed or Skipped result
CompletedSteps(res) ==
    {res[k].step_id : k \in {j \in 1..Len(res) :
                                res[j].status \in {"Success", "Failed", "Skipped"}}}

\* execute_build: the build status computed from the results
BuildStatusOfResults(res) ==
    IF \E k \in 1..Len(res) : res[k].status = "Failed" THEN "Failed" ELSE "Success"

(***************************************************************************)
(* The broadcast channel of StepStatusUpdates (tokio::sync::broadcast,     *)
(* created with broadcast::channel(100)) and its Receivers.  status_tx     *)
(* holds every update sent; the channel retains the last ChannelCapacity.  *)
(***************************************************************************)
ChannelCapacity == 100
MaxSubscribers == 2
MaxSent == 102
MaxUpdates == 2
MaxPipelines == 2
MaxArtifactIds == 1
MaxVersions == 2
MaxKeep == 2
MaxStores == 3
MaxLogs == 3
MaxRepoKeys == 2
MaxGitCallers == 2
MaxCloneCalls == 3

Subscribers == 1..MaxSubscribers
TheBuildId == 1
UpdateStatuses == {"Running", "Success"}

NoRecv == [kind |-> "none", step_name |-> 0, status |-> "none", missed |-> 0]

\* the position (0-based) of the oldest update the channel still retains
OldestRetained(tx) ==
    IF Len(tx) > ChannelCapacity THEN Len(tx) - ChannelCapacity ELSE 0

\* (variant: a bounded queue, the sender waits while the slowest Receiver
\* leaves no free slot)
CanSendWhenSlowestHasRoom(tx, subscribed, next) ==
    \A r \in subscribed : Len(tx) - next[r] < ChannelCapacity

\* broadcast::Sender::send never waits for a Receiver
CanSend(tx, subscribed, next) == TRUE

\* Receiver::recv on position next[r]: Lagged(missed) when that update was
\* overwritten, the update otherwise
RecvResult(tx, pos) ==
    IF pos < OldestRetained(tx)
    THEN [kind |-> "Lagged", step_name |-> 0, status |-> "none",
          missed |-> OldestRetained(tx) - pos]
    ELSE [kind |-> "Ok", step_name |-> tx[pos + 1].step_name,
          status |-> tx[pos + 1].status, missed |-> 0]

SubscriberInit ==
    /\ rx_subscribed = {}
    /\ rx_next = [r \in Subscribers |-> 0]
    /\ rx_last = [r \in Subscribers |-> NoRecv]

(***************************************************************************)
(* The status enums and their conversions: strings (models.rs, db.rs),     *)
(* integers (models.rs) and the protobuf enums (grpc.rs).                  *)
(***************************************************************************)
PipelineStatus == {"Unspecified", "Pending", "Running", "Completed", "Failed"}

StepStatus == BuildStatus \cup {"Skipped"}

StatusKinds == {"PipelineStatus", "BuildStatus", "StepStatus"}

StatusValues(kind) ==
    CASE kind = "PipelineStatus" -> PipelineStatus
      [] kind = "BuildStatus" -> BuildStatus
      [] kind = "StepStatus" -> StepStatus

\* impl Display for PipelineStatus
PipelineStatusDisplay(status) ==
    CASE status = "Unspecified" -> "unspecified"
      [] status = "Pending" -> "pending"
      [] status = "Running" -> "running"
      [] status = "Completed" -> "completed"
      [] status = "Failed" -> "failed"

\* impl From<PipelineStatus> for String
PipelineStatusToString(status) ==
    CASE status = "Unspecified" -> "unspecified"
      [] status = "Pending" -> "pending"
      [] status = "Running" -> "running"
      [] status = "Completed" -> "completed"
      [] status = "Failed" -> "failed"

\* impl FromStr for PipelineStatus: Ok(status), or Err
PipelineStatus_from_str(s) ==
    LET l == to_lowercase(s)
    IN  CASE l = "unspecified" -> "Unspecified"
          [] l = "pending" -> "Pending"
          [] l = "running" -> "Running"
          [] l = "completed" -> "Completed"
          [] l = "failed" -> "Failed"
          [] OTHER -> "Err"

\* impl From<String> for PipelineStatus
PipelineStatusFromString(s) ==
    CASE s = "unspecified" -> "Unspecified"
      [] s = "pending" -> "Pending"
      [] s = "running" -> "Running"
      [] s = "completed" -> "Completed"
      [] s = "failed" -> "Failed"
      [] OTHER -> "Unspecified"

\* impl From<PipelineStatus> for i32: status as i32, the discriminant
PipelineStatusAsI32(status) ==
    CASE status = "Unspecified" -> 0
      [] status = "Pending" -> 1
      [] status = "Running" -> 2
      [] status = "Completed" -> 3
      [] status = "Failed" -> 4

\* impl From<i32> for PipelineStatus
PipelineStatusFromI32(value) ==
    CASE value = 0 -> "Unspecified"
      [] value = 1 -> "Pending"
      [] value = 2 -> "Running"
      [] value = 3 -> "Completed"
      [] value = 4 -> "Failed"
      [] OTHER -> "Unspecified"

\* impl From<CorePipelineStatus> for ProtoPipelineStatus
ProtoPipelineStatusFromCore(status) ==
    CASE status = "Unspecified" -> "Unspecified"
      [] status = "Pending" -> "Pending"
      [] status = "Running" -> "Running"
      [] status = "Completed" -> "Completed"
      [] status = "Failed" -> "Failed"

\* impl From<ProtoPipelineStatus> for CorePipelineStatus
CorePipelineStatusFromProto(status) ==
    CASE status = "Unspecified" -> "Unspecified"
      [] status = "Pending" -> "Pending"
      [] status = "Running" -> "Running"
      [] status = "Completed" -> "Completed"
      [] status = "Failed" -> "Failed"

\* impl Display for BuildStatus
BuildStatusDisplay(status) ==
    CASE status = "Unspecified" -> "unspecified"
      [] status = "Pending" -> "pending"
      [] status = "Running" -> "running"
      [] status = "Success" -> "success"
      [] status = "Failed" -> "failed"
      [] status = "Cancelled" -> "cancelled"
      [] status = "TimedOut" -> "timedout"

\* impl FromStr for BuildStatus: Ok(status), or Err
BuildStatus_from_str(s) ==
    LET l == to_lowercase(s)
    IN  CASE l = "unspecified" -> "Unspecified"
          [] l = "pending" -> "Pending"
          [] l = "running" -> "Running"
          [] l = "success" -> "Success"
          [] l = "failed" -> "Failed"
          [] l = "cancelled" -> "Cancelled"
          [] l = "timedout" -> "TimedOut"
          [] OTHER -> "Err"

\* impl From<String> for BuildStatus
BuildStatusFromString(s) ==
    CASE s = "unspecified" -> "Unspecified"
      [] s = "pending" -> "Pending"
      [] s = "running" -> "Running"
      [] s = "success" -> "Success"
      [] s = "failed" -> "Failed"
      [] s = "cancelled" -> "Cancelled"
      [] s = "timedout" -> "TimedOut"
      [] OTHER -> "Unspecified"

\* impl From<BuildStatus> for i32: status as i32, the discriminant
BuildStatusAsI32(status) ==
    CASE status = "Unspecified" -> 0
      [] status = "Pending" -> 1
      [] status = "Running" -> 2
      [] status = "Success" -> 3
      [] status = "Failed" -> 4
      [] status = "Cancelled" -> 5
      [] status = "TimedOut" -> 6

\* impl From<i32> for BuildStatus
BuildStatusFromI32(value) ==
    CASE value = 0 -> "Unspecified"
      [] value = 1 -> "Pending"
      [] value = 2 -> "Running"
      [] value = 3 -> "Success"
      [] value = 4 -> "Failed"
      [] value = 5 -> "Cancelled"
      [] value = 6 -> "TimedOut"
      [] OTHER -> "Unspecified"

\* impl From<CoreBuildStatus> for ProtoBuildStatus
ProtoBuildStatusFromCore(status) ==
    CASE status = "Unspecified" -> "Unspecified"
      [] status = "Pending" -> "Pending"
      [] status = "Running" -> "Running"
      [] status = "Success" -> "Success"
      [] status = "Failed" -> "Failed"
      [] status = "Cancelled" -> "Cancelled"
      [] status = "TimedOut" -> "Failed"

\* impl From<ProtoBuildStatus> for CoreBuildStatus
CoreBuildStatusFromProto(status) ==
    CASE status = "Unspecified" -> "Unspecified"
      [] status = "Pending" -> "Pending"
      [] status = "Running" -> "Running"
      [] status = "Success" -> "Success"
      [] status = "Failed" -> "Failed"
      [] status = "Cancelled" -> "Cancelled"

\* impl Display for StepStatus
StepStatusDisplay(status) ==
    CASE status = "Unspecified" -> "unspecified"
      [] status = "Pending" -> "pending"
      [] status = "Running" -> "running"
      [] status = "Success" -> "success"
      [] status = "Failed" -> "failed"
      [] status = "Cancelled" -> "cancelled"
      [] status = "TimedOut" -> "timedout"
      [] status = "Skipped" -> "skipped"

\* impl From<StepStatus> for String
StepStatusToString(status) ==
    CASE status = "Unspecified" -> "unspecified"
      [] status = "Pending" -> "pending"
      [] status = "Running" -> "running"
      [] status = "Success" -> "success"
      [] status = "Failed" -> "failed"
      [] status = "Cancelled" -> "cancelled"
      [] status = "TimedOut" -> "timedout"
      [] status = "Skipped" -> "skipped"

\* impl FromStr for StepStatus: Ok(status), or Err
StepStatus_from_str(s) ==
    LET l == to_lowercase(s)
    IN  CASE l = "unspecified" -> "Unspecified"
          [] l = "pending" -> "Pending"
          [] l = "running" -> "Running"
          [] l = "success" -> "Success"
          [] l = "failed" -> "Failed"
          [] l = "cancelled" -> "Cancelled"
          [] l = "timedout" -> "TimedOut"
          [] l = "skipped" -> "Skipped"
          [] OTHER -> "Err"

\* (variant: the timed-out status is spelled "timed_out")
StepStatusFromStringSnakeCase(s) ==
    CASE s = "unspecified" -> "Unspecified"
      [] s = "pending" -> "Pending"
      [] s = "running" -> "Running"
      [] s = "success" -> "Success"
      [] s = "failed" -> "Failed"
      [] s = "cancelled" -> "Cancelled"
      [] s = "timed_out" -> "TimedOut"
      [] s = "skipped" -> "Skipped"
      [] OTHER -> "Unspecified"

\* impl From<String> for StepStatus
StepStatusFromString(s) ==
    CASE s = "unspecified" -> "Unspecified"
      [] s = "pending" -> "Pending"
      [] s = "running" -> "Running"
      [] s = "success" -> "Success"
      [] s = "failed" -> "Failed"
      [] s = "cancelled" -> "Cancelled"
      [] s = "timedout" -> "TimedOut"
      [] s = "skipped" -> "Skipped"
      [] OTHER -> "Unspecified"

\* impl From<StepStatus> for i32: status as i32, the discriminant
StepStatusAsI32(status) ==
    CASE status = "Unspecified" -> 0
      [] status = "Pending" -> 1
      [] status = "Running" -> 2
      [] status = "Success" -> 3
      [] status = "Failed" -> 4
      [] status = "Cancelled" -> 5
      [] status = "TimedOut" -> 6
      [] status = "Skipped" -> 7

\* impl From<i32> for StepStatus
StepStatusFromI32(value) ==
    CASE value = 0 -> "Unspecified"
      [] value = 1 -> "Pending"
      [] value = 2 -> "Running"
      [] value = 3 -> "Success"
      [] value = 4 -> "Failed"
      [] value = 5 -> "Cancelled"
      [] value = 6 -> "TimedOut"
      [] value = 7 -> "Skipped"
      [] OTHER -> "Unspecified"

\* impl From<CoreStepStatus> for ProtoStepStatus
ProtoStepStatusFromCore(status) ==
    CASE status = "Unspecified" -> "Unspecified"
      [] status = "Pending" -> "Pending"
      [] status = "Running" -> "Running"
      [] status = "Success" -> "Success"
      [] status = "Failed" -> "Failed"
      [] status = "Cancelled" -> "Cancelled"
      [] status = "TimedOut" -> "TimedOut"
      [] status = "Skipped" -> "Skipped"

\* impl From<ProtoStepStatus> for CoreStepStatus
CoreStepStatusFromProto(status) ==
    CASE status = "Unspecified" -> "Unspecified"
      [] status = "Pending" -> "Pending"
      [] status = "Running" -> "Running"
      [] status = "Success" -> "Success"
      [] status = "Failed" -> "Failed"
      [] status = "Cancelled" -> "Cancelled"
      [] status = "TimedOut" -> "TimedOut"
      [] status = "Skipped" -> "Skipped"

StringFormats == {"Display", "Into<String>"}
StringParsers == {"FromStr", "From<String>"}

\* the string of a status, by Display or by From<status> for String
FormatStatus(kind, via, status) ==
    CASE kind = "PipelineStatus" /\ via = "Display" -> PipelineStatusDisplay(status)
      [] kind = "PipelineStatus" /\ via = "Into<String>" -> PipelineStatusToString(status)
      [] kind = "BuildStatus" /\ via = "Display" -> BuildStatusDisplay(status)
      [] kind = "BuildStatus" /\ via = "Into<String>" -> BuildStatusToString(status)
      [] kind = "StepStatus" /\ via = "Display" -> StepStatusDisplay(status)
      [] kind = "StepStatus" /\ via = "Into<String>" -> StepStatusToString(status)

\* the status of a string, by FromStr or by From<String>
ParseStatus(kind, by, s) ==
    CASE kind = "PipelineStatus" /\ by = "FromStr" -> PipelineStatus_from_str(s)
      [] kind = "PipelineStatus" /\ by = "From<String>" -> PipelineStatusFromString(s)
      [] kind = "BuildStatus" /\ by = "FromStr" -> BuildStatus_from_str(s)
      [] kind = "BuildStatus" /\ by = "From<String>" -> BuildStatusFromString(s)
      [] kind = "StepStatus" /\ by = "FromStr" -> StepStatus_from_str(s)
      [] kind = "StepStatus" /\ by = "From<String>" -> StepStatusFromString(s)

StatusAsI32(kind, status) ==
    CASE kind = "PipelineStatus" -> PipelineStatusAsI32(status)
      [] kind = "BuildStatus" -> BuildStatusAsI32(status)
      [] kind = "StepStatus" -> StepStatusAsI32(status)

StatusFromI32(kind, value) ==
    CASE kind = "PipelineStatus" -> PipelineStatusFromI32(value)
      [] kind = "BuildStatus" -> BuildStatusFromI32(value)
      [] kind = "StepStatus" -> StepStatusFromI32(value)

ProtoFromCore(kind, status) ==
    CASE kind = "PipelineStatus" -> ProtoPipelineStatusFromCore(status)
      [] kind = "BuildStatus" -> ProtoBuildStatusFromCore(status)
      [] kind = "StepStatus" -> ProtoStepStatusFromCore(status)

CoreFromProto(kind, status) ==
    CASE kind = "PipelineStatus" -> CorePipelineStatusFromProto(status)
      [] kind = "BuildStatus" -> CoreBuildStatusFromProto(status)
      [] kind = "StepStatus" -> CoreStepStatusFromProto(status)

\* no conversion in progress
ConvIdle == [kind |-> "BuildStatus", status |-> "Unspecified", stage |-> "idle",
             via |-> "none", text |-> "none", num |-> -1, proto |-> "none",
             by |-> "none", out |-> "none"]

\* a status value about to be converted
ConvInputs ==
    {[ConvIdle EXCEPT !.kind = k, !.status = s, !.stage = "value"] :
        <<k, s>> \in {<<"PipelineStatus", s>> : s \in PipelineStatus}
                 \cup {<<"BuildStatus", s>> : s \in BuildStatus}
                 \cup {<<"StepStatus", s>> : s \in StepStatus}}

ConvInit == conv = ConvIdle

\* the pipeline ids create_pipeline and get_pipeline are called with
PipelineIds == 1..MaxPipelines

NoCreate == [id |-> 0, steps |-> {}, ok |-> FALSE,
             pipelines_before |-> {}, pipeline_steps_before |-> {}]
NoGet == [id |-> 0, ok |-> FALSE, steps |-> {}]

\* both tables empty, no call made yet
TablesIdle == [pipelines |-> {}, pipeline_steps |-> {},
               given |-> [p \in PipelineIds |-> {}],
               last_create |-> NoCreate, last_get |-> NoGet]

TablesInit == db_tables = TablesIdle

(***************************************************************************)
(* Paths (std::path), as sequences of components.                          *)
(***************************************************************************)
\* FileSystemWorkspaceManager.root_path and root_path.join(pipeline_id)
root_path == <<"/", "root">>
workspace_path == root_path \o <<"pipeline">>

\* the files this pipeline's steps can name: one inside the workspace, one
\* next to the workspace directory
InsideFile == workspace_path \o <<"inside.txt">>
OutsideFile == root_path \o <<"outside.txt">>

\* the source_path arguments of store_artifact
SourcePaths == {<<"inside.txt">>, <<"missing.txt">>, <<"..", "outside.txt">>,
                OutsideFile}

\* Path::join: an absolute path replaces the base
PathJoin(base, path) ==
    IF path # <<>> /\ path[1] = "/" THEN path ELSE base \o path

\* the path the file system reaches: every ".." removes the component before it
RECURSIVE Resolve(_)
Resolve(path) ==
    IF \E i \in 2..Len(path) : path[i] = ".." /\ path[i - 1] # ".."
    THEN LET i == CHOOSE i \in 2..Len(path) :
                     /\ path[i] = ".." /\ path[i - 1] # ".."
                     /\ \A j \in 2..(i - 1) : ~(path[j] = ".." /\ path[j - 1] # "..")
         IN  Resolve(SubSeq(path, 1, i - 2) \o SubSeq(path, i + 1, Len(path)))
    ELSE path

\* Path::starts_with: whole components, compared as written
PathStartsWith(path, base) ==
    /\ Len(path) >= Len(base)
    /\ SubSeq(path, 1, Len(base)) = base

\* Path::exists: the file system follows ".." before it looks the file up
PathExists(path, fs) ==
    \/ Resolve(path) = InsideFile /\ fs.workspace_exists
    \/ Resolve(path) = OutsideFile /\ fs.outside_exists
    \/ Resolve(path) = workspace_path /\ fs.workspace_exists

(***************************************************************************)
(* LocalArtifactStorage (artifact.rs) under FileSystemWorkspaceManager     *)
(* (workspace.rs): every call opens the storage of the pipeline afresh     *)
(* from metadata.json, so its state is what is on disk.                    *)
(***************************************************************************)
ArtifactIds == 1..MaxArtifactIds
Versions == 1..MaxVersions
KeepCounts == 0..MaxKeep

NoStore == [source_path |-> <<>>, ok |-> FALSE]
NoCleanup == [keep_n |-> -1, before |-> <<>>]
NoRetrieve == [id |-> 0, version |-> 0, ok |-> FALSE]

ArtifactIdle == [workspace_exists |-> FALSE, outside_exists |-> FALSE,
                 files |-> {}, active_artifacts |-> <<>>, copies |-> {},
                 clock |-> 1, last_store |-> NoStore,
                 last_cleanup |-> NoCleanup, last_retrieve |-> NoRetrieve]

ArtifactInit == artifact_fs = ArtifactIdle

\* active.iter().find(|m| m.id == id && m.version == version) is Some
HasMetadata(active, id, version) ==
    \E k \in 1..Len(active) : active[k].id = id /\ active[k].version = version

\* fs::metadata(artifact_path(id, version)).is_ok()
HasFile(files, id, version) ==
    \E f \in files : f.id = id /\ f.version = version

\* cleanup: the metadata of artifact id, sorted by created_at, newest first
RECURSIVE SortedByCreatedAtDesc(_)
SortedByCreatedAtDesc(entries) ==
    IF entries = {} THEN <<>>
    ELSE LET newest == CHOOSE e \in entries :
                           \A o \in entries : o.created_at <= e.created_at
         IN  <<newest>> \o SortedByCreatedAtDesc(entries \ {newest})

\* cleanup: to_remove, the (id, version) of artifacts[keep_n..] of every group
ToRemove(active, keep_n) ==
    UNION {LET sorted == SortedByCreatedAtDesc(
                             {active[k] : k \in {j \in 1..Len(active) : active[j].id = id}})
           IN  {<<sorted[k].id, sorted[k].version>> : k \in (keep_n + 1)..Len(sorted)}
           : id \in ArtifactIds}

\* active.retain(|m| !(m.id == id && m.version == version)) for all of to_remove
RECURSIVE Retain(_, _)
Retain(active, to_remove) ==
    IF active = <<>> THEN <<>>
    ELSE LET rest == Retain(Tail(active), to_remove)
         IN  IF <<Head(active).id, Head(active).version>> \in to_remove
             THEN rest ELSE <<Head(active)>> \o rest

(***************************************************************************)
(* cli Logger (packages/cli/src/logger.rs): log sends the entry on an mpsc  *)
(* channel, a spawned task appends the entries to {pipeline_id}.log.       *)
(***************************************************************************)
\* mpsc::channel(100)
LogChannelCapacity == 100

LogLevel == {"Info", "Error", "Debug"}

NoGetLogs == [called |-> FALSE, entries |-> <<>>, logged_before |-> {}]

\* the time between two readings of Utc::now(): none that the clock resolves, or some
Elapsed == {0, 1}

\* Logger::new: empty channel, no log file; clock is the last reading of Utc::now()
LoggerIdle == [channel |-> <<>>, file |-> <<>>, logged |-> {}, last_get |-> NoGetLogs,
               clock |-> 1]

LoggerInit == log_state = LoggerIdle

\* the entries whose log call has returned
EntriesLogged(ls) == ls.logged

\* no step has failed; the step ids are no UUIDs
SkipIdle == [ids_are_uuids |-> FALSE, failed |-> {}]

SkipInit == skip_state = SkipIdle

\* no SubscribeToStepUpdates call yet
GrpcIdle == [task |-> "none", sent |-> <<>>]

GrpcInit == grpc_stream = GrpcIdle

\* the keys "{url}:{target_path}" and the callers of clone_bare
RepoKeys == 1..MaxRepoKeys
GitCallers == 1..MaxGitCallers

NoCloneCall == [pc |-> "idle", key |-> 0, result |-> "none"]

\* GitManager::track_operation: Err when the key is in the set, else inserted
track_operation(ops, key) ==
    IF key \in ops THEN [err |-> TRUE, ops |-> ops]
    ELSE [err |-> FALSE, ops |-> ops \cup {key}]

\* GitManager::complete_operation
complete_operation(ops, key) == ops \ {key}

\* GitManager::new: no operation in progress, no clone_bare call made
GitIdle == [active_operations |-> {}, call |-> [c \in GitCallers |-> NoCloneCall],
            calls |-> 0]

GitInit == git_ops = GitIdle

\* tracker.rs: enum ExecutionState
ExecutionState == {"Pending", "Running", "Success", "Failed", "Cancelled"}

\* the id of the pipeline the CLI runs
ThePipelineId == 1

\* StepStatusUpdate { ..Default::default() }: every field None
NoStepStatusUpdate == [state |-> "None", end_time |-> NoneTime]

\* ExecutionTracker::new: an empty map
NoPipelines == [p \in {} |-> 0]

\* ExecutionTracker::create_pipeline: every step Pending, the pipeline Pending,
\* no end_time; the entry is inserted under id
create_pipeline(pipelines, id, steps) ==
    [p \in (DOMAIN pipelines) \cup {id} |->
        IF p = id
        THEN [state |-> "Pending", steps |-> [s \in steps |-> "Pending"],
              end_time |-> NoneTime]
        ELSE pipelines[p]]

\* StepStatusUpdate::apply, the state field of the step
apply(update, step_state) ==
    IF update.state # "None" THEN update.state ELSE step_state

\* ExecutionTracker::update_step at time t
update_step(pipelines, pipeline_id, step, update, t) ==
    IF pipeline_id \notin DOMAIN pipelines THEN pipelines
    ELSE IF step \notin DOMAIN pipelines[pipeline_id].steps THEN pipelines
    ELSE LET pipeline == pipelines[pipeline_id]
             steps == [pipeline.steps EXCEPT ![step] = apply(update, @)]
             all_completed == \A s \in DOMAIN steps : steps[s] \in {"Success", "Failed"}
             any_failed == \E s \in DOMAIN steps : steps[s] = "Failed"
         IN  [pipelines EXCEPT ![pipeline_id] =
                 IF all_completed
                 THEN [state |-> IF any_failed THEN "Failed" ELSE "Success",
                       steps |-> steps, end_time |-> t]
                 ELSE [pipeline EXCEPT !.steps = steps]]

\* ExecutionTracker::update_pipeline
update_pipeline(pipelines, pipeline_id, update) ==
    IF pipeline_id \notin DOMAIN pipelines THEN pipelines
    ELSE [pipelines EXCEPT ![pipeline_id] =
             [@ EXCEPT !.state = IF update.state # "None" THEN update.state ELSE @,
                       !.end_time = IF update.end_time # NoneTime
                                    THEN update.end_time ELSE @]]

\* ExecutionTracker::list_active_pipelines, as the ids of the entries returned
list_active_pipelines(pipelines) ==
    {p \in DOMAIN pipelines : pipelines[p].state \in {"Pending", "Running"}}

\* run_pipeline: the ExecutionState a step result is tracked with
RunState(status) ==
    CASE status = "Success" -> "Success"
      [] status = "Failed" -> "Failed"
      [] status = "Skipped" -> "Failed"
      [] status = "Running" -> "Running"
      [] status = "Pending" -> "Running"

\* run_pipeline, `for result in results`: update_step for each result
RECURSIVE ProcessResults(_, _, _, _, _)
ProcessResults(pipelines, res, k, all_successful, t) ==
    IF k > Len(res) THEN [pipelines |-> pipelines, all_successful |-> all_successful]
    ELSE LET state == RunState(res[k].status)
         IN  ProcessResults(
                 update_step(pipelines, ThePipelineId, res[k].step_id,
                             [NoStepStatusUpdate EXCEPT !.state = state,
                                                        !.end_time = t], t),
                 res, k + 1, all_successful /\ state # "Failed", t)

NoTrackerCall == [op |-> "none", pipeline_id |-> 0, step |-> 0]

\* CliApp::new: an empty tracker; run_pipeline has not been called; row_exists
\* says whether the pipelines table has a row with the pipeline's id
CliAppIdle == [run_pc |-> "idle", row_exists |-> TRUE, pipelines |-> NoPipelines,
               last_call |-> NoTrackerCall]

CliAppInit == cli_app = CliAppIdle

\* LogStream::new: last_processed is None
LogStreamIdle == [last_processed |-> NoneTime, returned |-> <<>>,
                  last_next |-> [kind |-> "none", file_len |-> 0]]

LogStreamInit == log_stream = LogStreamIdle

\* the components that a specification does not exercise
OtherInit ==
    /\ GrpcInit
    /\ CliAppInit
    /\ GitInit
    /\ LogStreamInit

(***************************************************************************)
(* Initial state: a stored pipeline, no build yet.                         *)
(***************************************************************************)
PipelineInit ==
    /\ numSteps \in 0..MaxSteps
    /\ dependencies \in [StepIds -> SUBSET (StepIds \cup {NonExistentStep})]
    /\ \A s \in StepIds :
          IF s \in Steps
          THEN dependencies[s] \subseteq (Steps \cup {NonExistentStep})
          ELSE dependencies[s] = {}

ExecutionInit ==
    /\ ready_steps = {}
    /\ executing_steps = {}
    /\ results = <<>>
    /\ join_set = [s \in StepIds |-> "none"]
    /\ joined = NoJoin
    /\ handed = [s \in StepIds |-> 0]
    /\ exec_error = "none"

CancelInit ==
    /\ cancel_pc = [c \in Callers |-> "idle"]
    /\ cancel_saw = [c \in Callers |-> "none"]
    /\ cancel_result = [c \in Callers |-> "none"]
    /\ cancel_in_flight = FALSE

ValidateInit ==
    /\ cli_result = "none"
    /\ config_result = "none"
    /\ cycle_report = [cli |-> <<>>, core |-> <<>>]

TriggerInit ==
    /\ trigger_pc = "idle"
    /\ later_build = NoRow

\* broadcast::channel(100): nothing sent yet; no step status stored yet
PublishInit ==
    /\ status_tx = <<>>
    /\ step_store = {}

ComponentInit ==
    /\ ConvInit
    /\ TablesInit
    /\ ArtifactInit
    /\ LoggerInit
    /\ SkipInit
    /\ OtherInit

SubsystemInit == SubscriberInit /\ ComponentInit

TimeoutInit == deadline_passed = [s \in StepIds |-> FALSE]

Init ==
    /\ PipelineInit
    /\ db_build = NoRow
    /\ db_lock = "free"
    /\ now = 1
    /\ pc = "idle"
    /\ ExecutionInit
    /\ CancelInit
    /\ ValidateInit
    /\ TriggerInit
    /\ PublishInit
    /\ TimeoutInit
    /\ SubsystemInit

(***************************************************************************)
(* PipelineEngine::trigger_build: create_build stores the build as Pending *)
(* and execute_build is spawned.                                           *)
(***************************************************************************)
TriggerBuild ==
    /\ pc = "idle"
    /\ db_build = NoRow
    /\ db_lock = "free"
    /\ db_build' = [status |-> BuildStatusToString("Pending"),
                    completed_at |-> NoneTime]
    /\ pc' = "start"
    /\ UNCHANGED <<pipelineVars, validateVars, triggerVars, publishVars, subsystemVars,
                   deadline_passed, db_lock, now, executionVars, cancelVars>>

(***************************************************************************)
(* PipelineEngine::execute_build.                                          *)
(***************************************************************************)
\* self.get_pipeline(&build.pipeline_id): the mutex is taken and released
ExecuteBuildGetPipeline ==
    /\ pc = "start"
    /\ db_lock = "free"
    /\ pc' = "got_pipeline"
    /\ UNCHANGED <<pipelineVars, validateVars, triggerVars, publishVars, subsystemVars,
                   deadline_passed, db_build, db_lock, now, executionVars, cancelVars>>

\* build_clone.status = Running; the mutex is taken for the rest of the call and
\* update_build writes build_clone, the copy of the build trigger_build made
ExecuteBuildMarkRunning ==
    /\ pc = "got_pipeline"
    /\ db_lock = "free"
    /\ db_lock' = "execute_build"
    /\ db_build' = [status |-> BuildStatusToString("Running"),
                    completed_at |-> NoneTime]
    /\ pc' = "exec_begin"
    /\ UNCHANGED <<pipelineVars, validateVars, triggerVars, publishVars, subsystemVars,
                   deadline_passed, now, executionVars, cancelVars>>

\* execute returned Ok(results): the status is computed and written
ExecuteBuildFinish ==
    /\ pc = "exec_ok"
    /\ db_build' = [status |-> BuildStatusToString(BuildStatusOfResults(results)),
                    completed_at |-> now]
    /\ now' = now + 1
    /\ db_lock' = "free"
    /\ pc' = "done_ok"
    /\ UNCHANGED <<pipelineVars, validateVars, triggerVars, publishVars, subsystemVars,
                   deadline_passed, executionVars, cancelVars>>

\* execute returned Err: `?` returns it, the guard of the mutex is dropped
ExecuteBuildFail ==
    /\ pc = "exec_err"
    /\ db_lock' = "free"
    /\ pc' = "done_err"
    /\ UNCHANGED <<pipelineVars, validateVars, triggerVars, publishVars, subsystemVars,
                   deadline_passed, db_build, now, executionVars, cancelVars>>

(***************************************************************************)
(* PipelineExecution::execute.                                             *)
(***************************************************************************)
\* build_dependency_graph()?, the initial ready set, the entry-point check
ExecuteBegin ==
    /\ pc = "exec_begin"
    /\ IF build_dependency_graph # "none"
       THEN /\ exec_error' = build_dependency_graph
            /\ pc' = "exec_err"
            /\ UNCHANGED ready_steps
       ELSE IF Steps # {} /\ InitialReadySteps = {}
       THEN /\ exec_error' = "no_entry_points"
            /\ pc' = "exec_err"
            /\ ready_steps' = InitialReadySteps
       ELSE /\ ready_steps' = InitialReadySteps
            /\ pc' = "exec_loop"
            /\ UNCHANGED exec_error
    /\ UNCHANGED <<pipelineVars, validateVars, triggerVars, publishVars, subsystemVars,
                   deadline_passed, db_build, db_lock, now, executing_steps, results,
                   join_set, joined, handed, cancelVars>>

\* ready_steps.iter().filter(|id| !self.executing_steps.contains(*id))
ExecutableSteps(ready, executing) == ready \ executing

\* (variant: only the first executable step is spawned before the wait)
SpawnFirst(js, executable) ==
    [s \in StepIds |->
        IF s \in executable /\ \A t \in executable : s <= t THEN "spawned" ELSE js[s]]

\* join_set.spawn for every executable step
SpawnAll(js, executable) ==
    [s \in StepIds |-> IF s \in executable THEN "spawned" ELSE js[s]]

\* one evaluation of the `while` condition: return Ok(results) when nothing is
\* ready or executing, otherwise spawn every executable step
ExecuteLoop ==
    /\ pc = "exec_loop"
    /\ IF ready_steps = {} /\ executing_steps = {}
       THEN /\ pc' = "exec_ok"
            /\ UNCHANGED <<ready_steps, executing_steps, join_set>>
       ELSE LET executable == ExecutableSteps(ready_steps, executing_steps)
            IN  IF executable # {}
                THEN /\ executing_steps' = executing_steps \cup executable
                     /\ ready_steps' = ready_steps \ executable
                     /\ join_set' = SpawnAll(join_set, executable)
                     /\ pc' = "exec_join"
                ELSE \* nothing to spawn: sleep 10 ms and test the condition again
                     /\ pc' = "exec_loop"
                     /\ UNCHANGED <<ready_steps, executing_steps, join_set>>
    /\ UNCHANGED <<pipelineVars, validateVars, triggerVars, publishVars, subsystemVars,
                   deadline_passed, db_build, db_lock, now, results, joined, handed,
                   exec_error, cancelVars>>

\* (variant: the task calls the executor again each time it is polled)
TaskStartedAgain(js, s) == js

\* the spawned task of step s is polled: executor.execute(&step, &build) is called
TaskStarted(js, s) == [js EXCEPT ![s] = "running"]

ExecutorStart(s) ==
    /\ join_set[s] = "spawned"
    /\ join_set' = TaskStarted(join_set, s)
    /\ handed' = [handed EXCEPT ![s] = @ + 1]
    /\ UNCHANGED <<pipelineVars, validateVars, triggerVars, publishVars, subsystemVars,
                   deadline_passed, db_build, db_lock, now, pc, ready_steps,
                   executing_steps, results, joined, exec_error, cancelVars>>

\* the executor returns for step s: Ok(Success), Ok(Failed) or Err
ExecutorFinish(s, o) ==
    /\ join_set[s] = "running"
    /\ join_set' = [join_set EXCEPT ![s] = o]
    /\ UNCHANGED <<pipelineVars, validateVars, triggerVars, publishVars, subsystemVars,
                   deadline_passed, db_build, db_lock, now, pc, ready_steps,
                   executing_steps, results, joined, handed, exec_error, cancelVars>>

\* results after the completion of step_id was handled (result_index > 0)
ResultsAfter(step_id, o, result_index, graph) ==
    IF o = "Err"
    THEN skip_dependents(graph[step_id], 1, graph,
            [results EXCEPT ![result_index].status = "Failed"], UuidStepIds)
    ELSE [results EXCEPT ![result_index] =
            [step_id |-> step_id, status |-> OutcomeStatus(o)]]

\* join_set.join_next() yields the finished task of step s.  The index of its
\* result is looked up with unwrap(): no result of that step panics the task,
\* the unwinding drops the JoinSet (its tasks are aborted) and the mutex guard.
\* Otherwise the arm of the outcome is run and, when the JoinSet is empty, the
\* end-of-batch check.
ExecuteJoinNext(s) ==
    /\ pc = "exec_join"
    /\ join_set[s] \in Outcomes
    /\ joined' = [step_id |-> s, execution_result |-> join_set[s]]
    /\ LET result_index == position(results, s)
           graph == DependencyGraph
       IN  IF result_index = 0
           THEN /\ pc' = "panicked"
                /\ join_set' = [t \in StepIds |-> "none"]
                /\ db_lock' = "free"
                /\ UNCHANGED <<results, ready_steps, executing_steps, exec_error>>
           ELSE LET res == ResultsAfter(s, join_set[s], result_index, graph)
                    ready == IF join_set[s] = "Err" THEN ready_steps
                             ELSE ready_steps \cup NewlyReady(s, graph, res)
                    executing == executing_steps \ {s}
                    js == [join_set EXCEPT ![s] = "none"]
                IN  /\ results' = res
                    /\ ready_steps' = ready
                    /\ executing_steps' = executing
                    /\ join_set' = js
                    /\ UNCHANGED db_lock
                    /\ IF \E t \in StepIds : js[t] # "none"
                       THEN UNCHANGED <<pc, exec_error>>
                       ELSE IF /\ executing = {}
                               /\ ready = {}
                               /\ CompletedSteps(res) # Steps
                       THEN /\ pc' = "exec_err"
                            /\ exec_error' = "never_executed"
                       ELSE /\ pc' = "exec_loop"
                            /\ UNCHANGED exec_error
    /\ UNCHANGED <<pipelineVars, validateVars, triggerVars, publishVars, subsystemVars,
                   deadline_passed, db_build, now, handed, cancelVars>>

(***************************************************************************)
(* PipelineEngine::cancel_build, called by any caller at any time.         *)
(***************************************************************************)
\* an executor is running a step of the build
StepInFlight == \E s \in StepIds : join_set[s] = "running"

\* the call is made; its first await is self.db.lock()
CancelBuildCall(c) ==
    /\ cancel_pc[c] = "idle"
    /\ cancel_pc' = [cancel_pc EXCEPT ![c] = "waiting"]
    /\ cancel_in_flight' = (cancel_in_flight \/ StepInFlight)
    /\ UNCHANGED <<pipelineVars, validateVars, triggerVars, publishVars, subsystemVars,
                   deadline_passed, db_build, db_lock, now, pc, executionVars,
                   cancel_saw, cancel_result>>

\* (variant: every build that is not yet Cancelled is cancelled)
CancellableUnlessCancelled(status) == status # "Cancelled"

\* build.status == Running || build.status == Pending
Cancellable(status) == status = "Running" \/ status = "Pending"

\* the mutex is acquired; get_build, the conditional update_build, Ok(())
CancelBuildBody(c) ==
    /\ cancel_pc[c] = "waiting"
    /\ db_lock = "free"
    /\ cancel_pc' = [cancel_pc EXCEPT ![c] = "returned"]
    /\ IF db_build = NoRow
       THEN /\ cancel_result' = [cancel_result EXCEPT ![c] = "Err"]
            /\ UNCHANGED <<db_build, now, cancel_saw>>
       ELSE /\ cancel_saw' = [cancel_saw EXCEPT ![c] = StoredStatus]
            /\ cancel_result' = [cancel_result EXCEPT ![c] = "Ok"]
            /\ IF Cancellable(StoredStatus)
               THEN /\ db_build' = [status |-> BuildStatusToString("Cancelled"),
                                    completed_at |-> now]
                    /\ now' = now + 1
               ELSE UNCHANGED <<db_build, now>>
    /\ UNCHANGED <<pipelineVars, validateVars, triggerVars, publishVars, subsystemVars,
                   deadline_passed, db_lock, pc, executionVars, cancel_in_flight>>

(***************************************************************************)
(* PipelineEngine::trigger_build called again on the same engine, for the  *)
(* same pipeline, once the first build exists.  The execute_build task it  *)
(* spawns runs the machine of the first build again and is not followed.   *)
(***************************************************************************)
\* the call is made; its first await is get_pipeline's self.db.lock()
LaterTriggerCall ==
    /\ trigger_pc = "idle"
    /\ db_build # NoRow
    /\ trigger_pc' = "get_pipeline"
    /\ UNCHANGED <<pipelineVars, validateVars, publishVars, subsystemVars, deadline_passed,
                   db_build, db_lock, now, pc, executionVars, cancelVars,
                   later_build>>

\* self.get_pipeline(pipeline_id): the mutex is taken and released
LaterTriggerGetPipeline ==
    /\ trigger_pc = "get_pipeline"
    /\ db_lock = "free"
    /\ trigger_pc' = "create_build"
    /\ UNCHANGED <<pipelineVars, validateVars, publishVars, subsystemVars, deadline_passed,
                   db_build, db_lock, now, pc, executionVars, cancelVars,
                   later_build>>

\* create_build takes the mutex and inserts the row with status Pending;
\* execute_build is spawned and Ok(build) returned
LaterTriggerCreateBuild ==
    /\ trigger_pc = "create_build"
    /\ db_lock = "free"
    /\ later_build' = [status |-> BuildStatusToString("Pending"),
                       completed_at |-> NoneTime]
    /\ trigger_pc' = "returned"
    /\ UNCHANGED <<pipelineVars, validateVars, publishVars, subsystemVars, deadline_passed,
                   db_build, db_lock, now, pc, executionVars, cancelVars>>

(***************************************************************************)
(* The validators, called on the pipeline.                                 *)
(***************************************************************************)
CliValidate ==
    /\ cli_result = "none"
    /\ \E order \in KeyOrders :
          /\ cli_result' = PipelineConfig_validate(order)
          /\ cycle_report' =
                [cycle_report EXCEPT !.cli =
                    IF PipelineConfig_validate(order) = "cycle"
                    THEN check_for_cycles(order, 1, {}).stack ELSE <<>>]
    /\ UNCHANGED <<pipelineVars, triggerVars, publishVars, subsystemVars, deadline_passed,
                   db_build, db_lock, now, pc, executionVars, cancelVars,
                   config_result>>

ConfigValidate ==
    /\ config_result = "none"
    /\ config_result' = Config_validate
    /\ cycle_report' =
          [cycle_report EXCEPT !.core =
              IF Config_validate = "cycle" THEN ConfigCycle ELSE <<>>]
    /\ UNCHANGED <<pipelineVars, triggerVars, publishVars, subsystemVars, deadline_passed,
                   db_build, db_lock, now, pc, executionVars, cancelVars,
                   cli_result>>

(***************************************************************************)
(* Step status updates: the two update_step_status functions, and the      *)
(* subscribers of the broadcast channel.                                   *)
(***************************************************************************)
\* PipelineEngine::subscribe_to_updates: self.status_tx.subscribe()
Subscribe(r) ==
    /\ r \notin rx_subscribed
    /\ rx_subscribed' = rx_subscribed \cup {r}
    /\ rx_next' = [rx_next EXCEPT ![r] = Len(status_tx)]
    /\ UNCHANGED <<pipelineVars, validateVars, triggerVars, publishVars,
                   deadline_passed, db_build, db_lock, now, pc, executionVars,
                   cancelVars, rx_last, componentVars>>

\* PipelineEngine::update_step_status: the update is sent on status_tx; with
\* no Receiver the send fails and the error is logged
UpdateStepStatus(s, st) ==
    /\ Len(status_tx) < MaxSent
    /\ CanSend(status_tx, rx_subscribed, rx_next)
    /\ status_tx' = IF rx_subscribed = {} THEN status_tx
                    ELSE Append(status_tx, [build_id |-> TheBuildId,
                                            step_name |-> s, status |-> st])
    /\ UNCHANGED <<pipelineVars, validateVars, triggerVars, deadline_passed,
                   db_build, db_lock, now, pc, executionVars, cancelVars,
                   step_store, subsystemVars>>

\* Engine::update_step_status: the mutex is taken and the status of the step
\* written to the store
EngineUpdateStepStatus(s, st) ==
    /\ db_lock = "free"
    /\ step_store' = step_store \cup {[step_id |-> s, status |-> st]}
    /\ UNCHANGED <<pipelineVars, validateVars, triggerVars, deadline_passed,
                   db_build, db_lock, now, pc, executionVars, cancelVars,
                   status_tx, subsystemVars>>

\* step_updates.recv().await returns for Receiver r
Recv(r) ==
    /\ r \in rx_subscribed
    /\ rx_next[r] < Len(status_tx)
    /\ rx_last' = [rx_last EXCEPT ![r] = RecvResult(status_tx, rx_next[r])]
    /\ rx_next' = [rx_next EXCEPT ![r] =
                      IF @ < OldestRetained(status_tx)
                      THEN OldestRetained(status_tx) ELSE @ + 1]
    /\ UNCHANGED <<pipelineVars, validateVars, triggerVars, publishVars,
                   deadline_passed, db_build, db_lock, now, pc, executionVars,
                   cancelVars, rx_subscribed, componentVars>>

(***************************************************************************)
(* The engine: one triggered build and its cancel_build callers.           *)
(***************************************************************************)
Next ==
    \/ TriggerBuild
    \/ ExecuteBuildGetPipeline
    \/ ExecuteBuildMarkRunning
    \/ ExecuteBegin
    \/ ExecuteLoop
    \/ \E s \in StepIds : ExecutorStart(s)
    \/ \E s \in StepIds : \E o \in Outcomes : ExecutorFinish(s, o)
    \/ \E s \in StepIds : ExecuteJoinNext(s)
    \/ ExecuteBuildFinish
    \/ ExecuteBuildFail
    \/ \E c \in Callers : CancelBuildCall(c)
    \/ \E c \in Callers : CancelBuildBody(c)

Spec == Init /\ [][Next]_vars

\* the runtime runs every spawned task that can take a step, a command that was
\* started ends, and a cancel_build call that can take the mutex takes it
Fairness ==
    /\ WF_vars(ExecuteBuildGetPipeline)
    /\ WF_vars(ExecuteBuildMarkRunning)
    /\ WF_vars(ExecuteBegin)
    /\ WF_vars(ExecuteLoop)
    /\ \A s \in StepIds : WF_vars(ExecutorStart(s))
    /\ \A s \in StepIds : WF_vars(\E o \in Outcomes : ExecutorFinish(s, o))
    /\ \A s \in StepIds : WF_vars(ExecuteJoinNext(s))
    /\ WF_vars(ExecuteBuildFinish)
    /\ WF_vars(ExecuteBuildFail)
    /\ \A c \in Callers : WF_vars(CancelBuildBody(c))

FairSpec == Spec /\ Fairness

(***************************************************************************)
(* cancel_build alone, on a build row found in the store with any status.  *)
(***************************************************************************)
StatusColumnValues ==
    {BuildStatusToString(st) : st \in BuildStatus} \cup {"RUNNING", "Success", "done"}

InitStored ==
    /\ numSteps = 0
    /\ dependencies = [s \in StepIds |-> {}]
    /\ db_build \in [status : StatusColumnValues, completed_at : {NoneTime, 1}]
    /\ db_lock = "free"
    /\ now = 2
    /\ pc = "idle"
    /\ ExecutionInit
    /\ CancelInit
    /\ ValidateInit
    /\ TriggerInit
    /\ PublishInit
    /\ TimeoutInit
    /\ SubsystemInit

NextCancel ==
    \/ \E c \in Callers : CancelBuildCall(c)
    \/ \E c \in Callers : CancelBuildBody(c)

SpecCancel == InitStored /\ [][NextCancel]_vars

(***************************************************************************)
(* The engine with a later trigger_build call.                             *)
(***************************************************************************)
NextTrigger ==
    \/ Next
    \/ LaterTriggerCall
    \/ LaterTriggerGetPipeline
    \/ LaterTriggerCreateBuild

SpecTrigger == Init /\ [][NextTrigger]_vars

(***************************************************************************)
(* The engine and the clock of the steps' timeouts.  Every step has        *)
(* timeout_seconds > 0.  Executor::execute awaits command.output() without *)
(* a timer: when the timeout_seconds of a running step have passed, the    *)
(* command goes on running and nothing else changes.                       *)
(***************************************************************************)
DeadlinePasses(s) ==
    /\ join_set[s] = "running"
    /\ ~deadline_passed[s]
    /\ deadline_passed' = [deadline_passed EXCEPT ![s] = TRUE]
    /\ UNCHANGED <<pipelineVars, validateVars, triggerVars, publishVars, subsystemVars,
                   db_build, db_lock, now, pc, executionVars, cancelVars>>

NextTimeout ==
    \/ Next
    \/ \E s \in StepIds : DeadlinePasses(s)

SpecTimeout == Init /\ [][NextTimeout]_vars

\* as Fairness, but a command that was started need not ever end
FairnessTimeout ==
    /\ WF_vars(ExecuteBuildGetPipeline)
    /\ WF_vars(ExecuteBuildMarkRunning)
    /\ WF_vars(ExecuteBegin)
    /\ WF_vars(ExecuteLoop)
    /\ \A s \in StepIds : WF_vars(ExecutorStart(s))
    /\ \A s \in StepIds : WF_vars(ExecuteJoinNext(s))
    /\ WF_vars(ExecuteBuildFinish)
    /\ WF_vars(ExecuteBuildFail)
    /\ \A c \in Callers : WF_vars(CancelBuildBody(c))

FairSpecTimeout == SpecTimeout /\ FairnessTimeout

(***************************************************************************)
(* One build without cancel_build callers, and the two validators.         *)
(***************************************************************************)
NextValidate ==
    \/ CliValidate
    \/ ConfigValidate
    \/ TriggerBuild
    \/ ExecuteBuildGetPipeline
    \/ ExecuteBuildMarkRunning
    \/ ExecuteBegin
    \/ ExecuteLoop
    \/ \E s \in StepIds : ExecutorStart(s)
    \/ \E s \in StepIds : \E o \in Outcomes : ExecutorFinish(s, o)
    \/ \E s \in StepIds : ExecuteJoinNext(s)
    \/ ExecuteBuildFinish
    \/ ExecuteBuildFail

SpecValidate == Init /\ [][NextValidate]_vars

(***************************************************************************)
(* Status updates of the steps of a pipeline, sent, stored and received.   *)
(***************************************************************************)
InitPublish ==
    /\ numSteps = MaxSteps
    /\ dependencies = [s \in StepIds |-> {}]
    /\ db_build = NoRow
    /\ db_lock = "free"
    /\ now = 1
    /\ pc = "idle"
    /\ ExecutionInit
    /\ CancelInit
    /\ ValidateInit
    /\ TriggerInit
    /\ PublishInit
    /\ TimeoutInit
    /\ SubsystemInit

NextPublish ==
    \/ \E r \in Subscribers : Subscribe(r)
    \/ \E s \in StepIds : \E st \in UpdateStatuses :
          Len(status_tx) < MaxUpdates /\ UpdateStepStatus(s, st)
    \/ \E s \in StepIds : \E st \in UpdateStatuses : EngineUpdateStepStatus(s, st)
    \/ \E r \in Subscribers : Recv(r)

SpecPublish == InitPublish /\ [][NextPublish]_vars

(***************************************************************************)
(* The channel under load: the Receivers subscribe, then a producer sends; *)
(* the first Receiver reads, the others never do.                          *)
(***************************************************************************)
NextChannel ==
    \/ \E r \in Subscribers : Len(status_tx) = 0 /\ Subscribe(r)
    \/ UpdateStepStatus(1, "Running")
    \/ Recv(1)

SpecChannel == InitPublish /\ [][NextChannel]_vars

(***************************************************************************)
(* The gRPC stream of step updates: subscribe_to_step_updates creates a    *)
(* Receiver and spawns the task that forwards what it receives to the      *)
(* client's stream; the client reads the stream as it is filled.           *)
(***************************************************************************)
GrpcReceiver == 1

\* subscribe_to_step_updates: mpsc::channel(128), subscribe_to_updates(),
\* tokio::spawn of the forwarding loop, the stream is returned
GrpcSubscribeToStepUpdates ==
    /\ grpc_stream.task = "none"
    /\ GrpcReceiver \notin rx_subscribed
    /\ rx_subscribed' = rx_subscribed \cup {GrpcReceiver}
    /\ rx_next' = [rx_next EXCEPT ![GrpcReceiver] = Len(status_tx)]
    /\ grpc_stream' = [grpc_stream EXCEPT !.task = "running"]
    /\ UNCHANGED <<pipelineVars, validateVars, triggerVars, publishVars,
                   deadline_passed, db_build, db_lock, now, pc, executionVars,
                   cancelVars, rx_last, exceptGrpc>>

\* one turn of `while let Ok(update) = step_updates.recv().await`: an update
\* is sent on as a response; on Err (Lagged) the loop ends, the task returns
\* and tx is dropped, which ends the client's stream
GrpcForward ==
    /\ grpc_stream.task = "running"
    /\ rx_next[GrpcReceiver] < Len(status_tx)
    /\ LET received == RecvResult(status_tx, rx_next[GrpcReceiver])
       IN  /\ rx_last' = [rx_last EXCEPT ![GrpcReceiver] = received]
           /\ rx_next' = [rx_next EXCEPT ![GrpcReceiver] =
                             IF @ < OldestRetained(status_tx)
                             THEN OldestRetained(status_tx) ELSE @ + 1]
           /\ grpc_stream' =
                 IF received.kind = "Ok"
                 THEN [grpc_stream EXCEPT !.sent =
                          Append(@, [kind |-> "update",
                                     build_id |-> TheBuildId,
                                     step_name |-> received.step_name,
                                     status |-> received.status])]
                 ELSE [grpc_stream EXCEPT !.task = "ended"]
    /\ UNCHANGED <<pipelineVars, validateVars, triggerVars, publishVars,
                   deadline_passed, db_build, db_lock, now, pc, executionVars,
                   cancelVars, rx_subscribed, exceptGrpc>>

NextGrpc ==
    \/ Len(status_tx) = 0 /\ GrpcSubscribeToStepUpdates
    \/ UpdateStepStatus(1, "Running")
    \/ GrpcForward

SpecGrpc == InitPublish /\ [][NextGrpc]_vars

(***************************************************************************)
(* CliApp::run_pipeline: the tracker entry is created, the engine executes *)
(* the pipeline, the results are written to the tracker.                   *)
(***************************************************************************)
\* tracker.create_pipeline(pipeline_id, name, step ids)
RunPipelineCreate ==
    /\ cli_app.run_pc = "idle"
    /\ cli_app' = [cli_app EXCEPT
                      !.run_pc = "created",
                      !.pipelines = create_pipeline(@, ThePipelineId, Steps),
                      !.last_call = [op |-> "create_pipeline",
                                     pipeline_id |-> ThePipelineId, step |-> 0]]
    /\ UNCHANGED <<engineVars, exceptCliApp>>

\* engine.execute_pipeline(pipeline).await?, up to the call of execute: the
\* db mutex is taken and update_pipeline (fetch_one) returns the row or
\* RowNotFound, which `?` returns from execute_pipeline and from run_pipeline
RunPipelineCallEngine ==
    /\ cli_app.run_pc = "created"
    /\ pc = "idle"
    /\ db_lock = "free"
    /\ IF cli_app.row_exists
       THEN /\ pc' = "exec_begin"
            /\ db_lock' = "execute_pipeline"
            /\ cli_app' = [cli_app EXCEPT !.run_pc = "in_engine"]
       ELSE /\ cli_app' = [cli_app EXCEPT !.run_pc = "returned_err"]
            /\ UNCHANGED <<pc, db_lock>>
    /\ UNCHANGED <<pipelineVars, validateVars, triggerVars, publishVars,
                   subscriberVars, deadline_passed, db_build, now, executionVars,
                   cancelVars, exceptCliApp>>

\* execute returned Err: `?` returns it from execute_pipeline and run_pipeline
RunPipelineEngineErr ==
    /\ cli_app.run_pc = "in_engine"
    /\ pc = "exec_err"
    /\ pc' = "done_err"
    /\ db_lock' = "free"
    /\ cli_app' = [cli_app EXCEPT !.run_pc = "returned_err"]
    /\ UNCHANGED <<pipelineVars, validateVars, triggerVars, publishVars,
                   subscriberVars, deadline_passed, db_build, now, executionVars,
                   cancelVars, exceptCliApp>>

\* execute returned Ok(results): execute_pipeline updates the row and returns
\* them; run_pipeline tracks every result with update_step and then writes
\* the state of the pipeline with update_pipeline
RunPipelineProcess ==
    /\ cli_app.run_pc = "in_engine"
    /\ pc = "exec_ok"
    /\ pc' = "done_ok"
    /\ db_lock' = "free"
    /\ LET processed == ProcessResults(cli_app.pipelines, results, 1, TRUE, now)
           state == IF processed.all_successful THEN "Success" ELSE "Failed"
       IN  cli_app' = [cli_app EXCEPT
                          !.run_pc = "returned_ok",
                          !.pipelines =
                              update_pipeline(processed.pipelines, ThePipelineId,
                                              [state |-> state, end_time |-> now]),
                          !.last_call = [op |-> "update_pipeline",
                                         pipeline_id |-> ThePipelineId, step |-> 0]]
    /\ UNCHANGED <<pipelineVars, validateVars, triggerVars, publishVars,
                   subscriberVars, deadline_passed, db_build, now, executionVars,
                   cancelVars, exceptCliApp>>

InitCliRun ==
    /\ PipelineInit
    /\ db_build = NoRow
    /\ db_lock = "free"
    /\ now = 1
    /\ pc = "idle"
    /\ ExecutionInit
    /\ CancelInit
    /\ ValidateInit
    /\ TriggerInit
    /\ PublishInit
    /\ TimeoutInit
    /\ SubscriberInit
    /\ ConvInit
    /\ TablesInit
    /\ ArtifactInit
    /\ LoggerInit
    /\ SkipInit
    /\ GrpcInit
    /\ GitInit
    /\ LogStreamInit
    /\ cli_app \in {[CliAppIdle EXCEPT !.row_exists = b] : b \in BOOLEAN}

NextCliRun ==
    \/ RunPipelineCreate
    \/ RunPipelineCallEngine
    \/ ExecuteBegin
    \/ ExecuteLoop
    \/ \E s \in StepIds : ExecutorStart(s)
    \/ \E s \in StepIds : \E o \in Outcomes : ExecutorFinish(s, o)
    \/ \E s \in StepIds : ExecuteJoinNext(s)
    \/ RunPipelineEngineErr
    \/ RunPipelineProcess

SpecCliRun == InitCliRun /\ [][NextCliRun]_vars

(***************************************************************************)
(* The ExecutionTracker, its operations called in any order.               *)
(***************************************************************************)
TrackerCreatePipeline(steps) ==
    /\ ThePipelineId \notin DOMAIN cli_app.pipelines
    /\ cli_app' = [cli_app EXCEPT
                      !.pipelines = create_pipeline(@, ThePipelineId, steps),
                      !.last_call = [op |-> "create_pipeline",
                                     pipeline_id |-> ThePipelineId, step |-> 0]]
    /\ UNCHANGED <<engineVars, exceptCliApp>>

TrackerUpdateStep(step, state) ==
    /\ cli_app' = [cli_app EXCEPT
                      !.pipelines =
                          update_step(@, ThePipelineId, step,
                                      [NoStepStatusUpdate EXCEPT !.state = state,
                                                                 !.end_time = now],
                                      now),
                      !.last_call = [op |-> "update_step",
                                     pipeline_id |-> ThePipelineId, step |-> step]]
    /\ UNCHANGED <<engineVars, exceptCliApp>>

TrackerUpdatePipeline(state) ==
    /\ cli_app' = [cli_app EXCEPT
                      !.pipelines =
                          update_pipeline(@, ThePipelineId,
                                          [state |-> state, end_time |-> now]),
                      !.last_call = [op |-> "update_pipeline",
                                     pipeline_id |-> ThePipelineId, step |-> 0]]
    /\ UNCHANGED <<engineVars, exceptCliApp>>

NextTracker ==
    \/ \E steps \in SUBSET StepIds : TrackerCreatePipeline(steps)
    \/ \E step \in StepIds : \E state \in ExecutionState :
          TrackerUpdateStep(step, state)
    \/ \E state \in ExecutionState : TrackerUpdatePipeline(state)

InitTracker ==
    /\ numSteps = 0
    /\ dependencies = [s \in StepIds |-> {}]
    /\ db_build = NoRow
    /\ db_lock = "free"
    /\ now = 1
    /\ pc = "idle"
    /\ ExecutionInit
    /\ CancelInit
    /\ ValidateInit
    /\ TriggerInit
    /\ PublishInit
    /\ TimeoutInit
    /\ SubsystemInit

SpecTracker == InitTracker /\ [][NextTracker]_vars

(***************************************************************************)
(* The conversions of a status value, applied to every value of the three  *)
(* enums.                                                                  *)
(***************************************************************************)
\* the engine with an empty pipeline and no build
EngineIdle ==
    /\ numSteps = 0
    /\ dependencies = [s \in StepIds |-> {}]
    /\ db_build = NoRow
    /\ db_lock = "free"
    /\ now = 1
    /\ pc = "idle"
    /\ ExecutionInit
    /\ CancelInit
    /\ ValidateInit
    /\ TriggerInit
    /\ PublishInit
    /\ TimeoutInit
    /\ SubscriberInit

\* status.to_string() or String::from(status)
StatusToText(via) ==
    /\ conv.stage = "value"
    /\ conv' = [conv EXCEPT !.stage = "text", !.via = via,
                            !.text = FormatStatus(conv.kind, via, conv.status)]
    /\ UNCHANGED <<engineVars, exceptConv>>

\* text.parse() or Status::from(text)
TextToStatus(by) ==
    /\ conv.stage = "text"
    /\ conv' = [conv EXCEPT !.stage = "parsed", !.by = by,
                            !.out = ParseStatus(conv.kind, by, conv.text)]
    /\ UNCHANGED <<engineVars, exceptConv>>

\* i32::from(status)
StatusToI32 ==
    /\ conv.stage = "value"
    /\ conv' = [conv EXCEPT !.stage = "i32",
                            !.num = StatusAsI32(conv.kind, conv.status)]
    /\ UNCHANGED <<engineVars, exceptConv>>

\* Status::from(value)
I32ToStatus ==
    /\ conv.stage = "i32"
    /\ conv' = [conv EXCEPT !.stage = "from_i32",
                            !.out = StatusFromI32(conv.kind, conv.num)]
    /\ UNCHANGED <<engineVars, exceptConv>>

\* ProtoStatus::from(status)
CoreToProto ==
    /\ conv.stage = "value"
    /\ conv' = [conv EXCEPT !.stage = "proto",
                            !.proto = ProtoFromCore(conv.kind, conv.status)]
    /\ UNCHANGED <<engineVars, exceptConv>>

\* CoreStatus::from(proto)
ProtoToCore ==
    /\ conv.stage = "proto"
    /\ conv' = [conv EXCEPT !.stage = "from_proto",
                            !.out = CoreFromProto(conv.kind, conv.proto)]
    /\ UNCHANGED <<engineVars, exceptConv>>

InitConvert ==
    /\ EngineIdle
    /\ conv \in ConvInputs
    /\ TablesInit
    /\ ArtifactInit
    /\ LoggerInit
    /\ SkipInit
    /\ OtherInit

NextConvert ==
    \/ \E via \in StringFormats : StatusToText(via)
    \/ \E by \in StringParsers : TextToStatus(by)
    \/ StatusToI32
    \/ I32ToStatus
    \/ CoreToProto
    \/ ProtoToCore

SpecConvert == InitConvert /\ [][NextConvert]_vars

(***************************************************************************)
(* db.rs Database::create_pipeline and Database::get_pipeline.             *)
(***************************************************************************)
\* create_pipeline(pipeline): one INSERT INTO pipelines; pipeline.steps is not
\* written.  The statement fails on a database error or on an id that is
\* already a row (primary key), and then writes nothing.
CreatePipeline(id, steps, db_error) ==
    LET failed == db_error \/ id \in db_tables.pipelines
        call == [id |-> id, steps |-> steps, ok |-> ~failed,
                 pipelines_before |-> db_tables.pipelines,
                 pipeline_steps_before |-> db_tables.pipeline_steps]
    IN  /\ db_tables' =
              IF failed
              THEN [db_tables EXCEPT !.last_create = call, !.last_get = NoGet]
              ELSE [db_tables EXCEPT !.pipelines = @ \cup {id},
                                     !.given[id] = steps,
                                     !.last_create = call, !.last_get = NoGet]
        /\ UNCHANGED <<engineVars, exceptTables>>

\* get_pipeline(id): the row of pipelines, RowNotFound without one, and the
\* rows of pipeline_steps with that pipeline_id
GetPipeline(id) ==
    /\ db_tables' =
          [db_tables EXCEPT !.last_get =
              IF id \in db_tables.pipelines
              THEN [id |-> id, ok |-> TRUE,
                    steps |-> {st \in StepIds : <<id, st>> \in db_tables.pipeline_steps}]
              ELSE [id |-> id, ok |-> FALSE, steps |-> {}]]
    /\ UNCHANGED <<engineVars, exceptTables>>

InitTables ==
    /\ EngineIdle
    /\ ConvInit
    /\ TablesInit
    /\ ArtifactInit
    /\ LoggerInit
    /\ SkipInit
    /\ OtherInit

NextTables ==
    \/ \E id \in PipelineIds : \E steps \in SUBSET StepIds : \E db_error \in BOOLEAN :
          CreatePipeline(id, steps, db_error)
    \/ \E id \in PipelineIds : GetPipeline(id)

SpecTables == InitTables /\ [][NextTables]_vars

(***************************************************************************)
(* FileSystemWorkspaceManager: store_artifact, retrieve_artifact and       *)
(* cleanup_artifacts of one pipeline.                                      *)
(***************************************************************************)
\* WorkspaceManager::create(pipeline_id)
CreateWorkspace ==
    /\ ~artifact_fs.workspace_exists
    /\ artifact_fs' = [artifact_fs EXCEPT !.workspace_exists = TRUE, !.copies = {}]
    /\ UNCHANGED <<engineVars, exceptArtifacts>>

\* store_artifact(pipeline_id, step_id, source_path, version): the three checks,
\* then LocalArtifactStorage::store copies the file to {id}_{version}, pushes
\* the metadata and saves metadata.json
StoreArtifact(id, source_path, version) ==
    /\ artifact_fs.clock <= MaxStores
    /\ LET absolute_source_path == PathJoin(workspace_path, source_path)
           accepted == /\ artifact_fs.workspace_exists
                       /\ PathExists(absolute_source_path, artifact_fs)
                       /\ PathStartsWith(absolute_source_path, workspace_path)
           metadata == [id |-> id, version |-> version,
                        created_at |-> artifact_fs.clock]
       IN  artifact_fs' =
              IF accepted
              THEN [artifact_fs EXCEPT
                      !.files = {f \in @ : ~(f.id = id /\ f.version = version)}
                                \cup {[id |-> id, version |-> version,
                                       from |-> Resolve(absolute_source_path)]},
                      !.active_artifacts = Append(@, metadata),
                      !.clock = @ + 1,
                      !.last_store = [source_path |-> source_path, ok |-> TRUE],
                      !.last_cleanup = NoCleanup,
                      !.last_retrieve = NoRetrieve]
              ELSE [artifact_fs EXCEPT
                      !.last_store = [source_path |-> source_path, ok |-> FALSE]]
    /\ UNCHANGED <<engineVars, exceptArtifacts>>

\* cleanup_artifacts(pipeline_id, policy) with policy.keep_last_n = Some(keep_n):
\* LocalArtifactStorage::cleanup, then the workspace's artifacts directory is
\* removed
CleanupArtifacts(keep_n) ==
    /\ artifact_fs.active_artifacts # <<>>
    /\ LET to_remove == ToRemove(artifact_fs.active_artifacts, keep_n)
       IN  artifact_fs' =
              [artifact_fs EXCEPT
                 !.files = {f \in @ : <<f.id, f.version>> \notin to_remove},
                 !.active_artifacts = Retain(@, to_remove),
                 !.copies = {},
                 !.last_cleanup = [keep_n |-> keep_n,
                                   before |-> artifact_fs.active_artifacts],
                 !.last_retrieve = NoRetrieve]
    /\ UNCHANGED <<engineVars, exceptArtifacts>>

\* retrieve_artifact(pipeline_id, artifact_id, version): NotFound without the
\* file; the file is copied before the metadata is looked up
RetrieveArtifact(id, version) ==
    /\ artifact_fs.workspace_exists
    /\ LET found == HasFile(artifact_fs.files, id, version)
           ok == found /\ HasMetadata(artifact_fs.active_artifacts, id, version)
       IN  artifact_fs' =
              [artifact_fs EXCEPT
                 !.copies = IF found THEN @ \cup {<<id, version>>} ELSE @,
                 !.last_retrieve = [id |-> id, version |-> version, ok |-> ok]]
    /\ UNCHANGED <<engineVars, exceptArtifacts>>

InitArtifacts ==
    /\ EngineIdle
    /\ ConvInit
    /\ TablesInit
    /\ artifact_fs \in {[ArtifactIdle EXCEPT !.outside_exists = o] : o \in BOOLEAN}
    /\ LoggerInit
    /\ SkipInit
    /\ OtherInit

NextArtifacts ==
    \/ CreateWorkspace
    \/ \E id \in ArtifactIds : \E source_path \in SourcePaths : \E version \in Versions :
          StoreArtifact(id, source_path, version)
    \/ \E keep_n \in KeepCounts : CleanupArtifacts(keep_n)
    \/ \E id \in ArtifactIds : \E version \in Versions : RetrieveArtifact(id, version)

SpecArtifacts == InitArtifacts /\ [][NextArtifacts]_vars

(***************************************************************************)
(* Logger::log, the writer task and Logger::get_logs, for one pipeline.    *)
(***************************************************************************)
\* log(pipeline_id, step, level, message): sender.send(entry).await returns
\* when the entry is in the channel
Log(level, elapsed) ==
    /\ Cardinality(log_state.logged) < MaxLogs
    /\ Len(log_state.channel) < LogChannelCapacity
    /\ LET entry == [message |-> Cardinality(log_state.logged) + 1, level |-> level,
                     timestamp |-> log_state.clock + elapsed]
       IN  log_state' = [log_state EXCEPT !.channel = Append(@, entry),
                                          !.logged = @ \cup {entry},
                                          !.clock = @ + elapsed]
    /\ UNCHANGED <<engineVars, exceptLogger>>

\* the spawned task: receiver.recv() yields an entry, write_log_entry appends
\* its line to the file; an error is printed and the entry dropped
WriteLogEntry(io_error) ==
    /\ log_state.channel # <<>>
    /\ log_state' = [log_state EXCEPT
                        !.channel = Tail(@),
                        !.file = IF io_error THEN @
                                 ELSE Append(@, Head(log_state.channel))]
    /\ UNCHANGED <<engineVars, exceptLogger>>

\* get_logs(pipeline_id): the lines of the file, empty without a file
GetLogs ==
    /\ log_state' = [log_state EXCEPT
                        !.last_get = [called |-> TRUE, entries |-> log_state.file,
                                      logged_before |-> EntriesLogged(log_state)]]
    /\ UNCHANGED <<engineVars, exceptLogger>>

InitLogger ==
    /\ EngineIdle
    /\ ConvInit
    /\ TablesInit
    /\ ArtifactInit
    /\ LoggerInit
    /\ SkipInit
    /\ OtherInit

NextLogger ==
    \/ \E level \in LogLevel : \E elapsed \in Elapsed : Log(level, elapsed)
    \/ \E io_error \in BOOLEAN : WriteLogEntry(io_error)
    \/ GetLogs

SpecLogger == InitLogger /\ [][NextLogger]_vars

(***************************************************************************)
(* LogStream over the log file of the pipeline, read while the logger      *)
(* writes.                                                                 *)
(***************************************************************************)
\* entries.into_iter().filter(|e| last_processed.map_or(true, |t| e.timestamp > t))
new_entries(entries, last_processed) ==
    SelectSeq(entries, LAMBDA e : last_processed = NoneTime \/ e.timestamp > last_processed)

\* LogStream::next: get_logs, the entries after last_processed, the first of
\* them is returned and its timestamp kept; None when there is none
LogStreamNext ==
    /\ LET new == new_entries(log_state.file, log_stream.last_processed)
       IN  log_stream' =
             IF new # <<>>
             THEN [last_processed |-> new[1].timestamp,
                   returned |-> Append(log_stream.returned, new[1]),
                   last_next |-> [kind |-> "Some", file_len |-> Len(log_state.file)]]
             ELSE [log_stream EXCEPT
                      !.last_next = [kind |-> "None", file_len |-> Len(log_state.file)]]
    /\ UNCHANGED <<engineVars, exceptLogStream>>

NextLogStream ==
    \/ \E elapsed \in Elapsed : Log("Info", elapsed)
    \/ \E io_error \in BOOLEAN : WriteLogEntry(io_error)
    \/ LogStreamNext

SpecLogStream == InitLogger /\ [][NextLogStream]_vars

(***************************************************************************)
(* GitManager::clone_bare, called by several callers, each again after its *)
(* call has ended.                                                         *)
(***************************************************************************)
\* clone_bare_inner up to spawn_blocking: track_operation(&repo_key).await?
CloneBareTrack(c, key) ==
    /\ git_ops.call[c].pc \in {"idle", "ended"}
    /\ git_ops.calls < MaxCloneCalls
    /\ LET tracked == track_operation(git_ops.active_operations, key)
       IN  git_ops' =
             [active_operations |-> tracked.ops,
              call |-> [git_ops.call EXCEPT ![c] =
                           IF tracked.err
                           THEN [pc |-> "ended", key |-> key,
                                 result |-> "already_in_progress"]
                           ELSE [pc |-> "cloning", key |-> key, result |-> "none"]],
              calls |-> git_ops.calls + 1]
    /\ UNCHANGED <<engineVars, exceptGit>>

\* the blocking task has ended within the timeout: on Ok complete_operation
\* runs and the repository is returned; a clone error or a JoinError is
\* returned by `??` before complete_operation
CloneBareFinish(c, outcome) ==
    /\ git_ops.call[c].pc = "cloning"
    /\ git_ops' =
          [git_ops EXCEPT
              !.active_operations =
                  IF outcome = "Ok" THEN complete_operation(@, git_ops.call[c].key)
                  ELSE @,
              !.call[c] = [pc |-> "ended", key |-> git_ops.call[c].key,
                           result |-> outcome]]
    /\ UNCHANGED <<engineVars, exceptGit>>

\* tokio::time::timeout expires first: the future of clone_bare_inner is
\* dropped where it waits for the blocking task, GitError::Timeout is returned
CloneBareTimeout(c) ==
    /\ git_ops.call[c].pc = "cloning"
    /\ git_ops' = [git_ops EXCEPT
                      !.call[c] = [pc |-> "ended", key |-> git_ops.call[c].key,
                                   result |-> "Timeout"]]
    /\ UNCHANGED <<engineVars, exceptGit>>

NextGit ==
    \/ \E c \in GitCallers : \E key \in RepoKeys : CloneBareTrack(c, key)
    \/ \E c \in GitCallers : \E outcome \in {"Ok", "CloneError", "JoinError"} :
          CloneBareFinish(c, outcome)
    \/ \E c \in GitCallers : CloneBareTimeout(c)

SpecGit == InitLogger /\ [][NextGit]_vars

(***************************************************************************)
(* The skip walk of execute's Err arm, applied to the steps of the first   *)
(* batch of a pipeline whose ids are all UUIDs or all not.                 *)
(***************************************************************************)
\* for dependent in graph[step_id] { mark_step_and_dependents_skipped(..) },
\* for a step of the first batch whose executor returned Err
SkipDependentsOf(step_id) ==
    /\ build_dependency_graph = "none"
    /\ step_id \in InitialReadySteps \ skip_state.failed
    /\ results' = skip_dependents(DependencyGraph[step_id], 1, DependencyGraph, results,
                                  IF skip_state.ids_are_uuids THEN StepIds ELSE {})
    /\ skip_state' = [skip_state EXCEPT !.failed = @ \cup {step_id}]
    /\ UNCHANGED <<pipelineVars, validateVars, triggerVars, publishVars,
                   subscriberVars, deadline_passed, db_build, db_lock, now, pc,
                   ready_steps, executing_steps, join_set, joined, handed,
                   exec_error, cancelVars, exceptSkip>>

InitSkip ==
    /\ PipelineInit
    /\ db_build = NoRow
    /\ db_lock = "free"
    /\ now = 1
    /\ pc = "idle"
    /\ ExecutionInit
    /\ CancelInit
    /\ ValidateInit
    /\ TriggerInit
    /\ PublishInit
    /\ TimeoutInit
    /\ SubscriberInit
    /\ ConvInit
    /\ TablesInit
    /\ ArtifactInit
    /\ LoggerInit
    /\ skip_state \in {[SkipIdle EXCEPT !.ids_are_uuids = u] : u \in BOOLEAN}
    /\ OtherInit

NextSkip == \E step_id \in StepIds : SkipDependentsOf(step_id)

SpecSkip == InitSkip /\ [][NextSkip]_vars

(***************************************************************************)
(* Reference notions the properties are stated with.                       *)
(***************************************************************************)
TerminalBuildStatus == {"Success", "Failed", "Cancelled", "TimedOut"}

RECURSIVE DependentsClosure(_)
DependentsClosure(S) ==
    LET S2 == S \cup {t \in Steps : dependencies[t] \cap S # {}}
    IN  IF S2 = S THEN S ELSE DependentsClosure(S2)

\* the steps that depend on s, directly or through other steps
TransitiveDependents(s) ==
    DependentsClosure({t \in Steps : s \in dependencies[t]})

\* non-empty, every dependency exists, acyclic
PipelineValidates ==
    /\ numSteps > 0
    /\ \A s \in Steps : dependencies[s] \subseteq Steps
    /\ \A s \in Steps : s \notin TransitiveDependents(s)

\* execute has ended: it returned Ok or Err, or its task panicked
ExecuteEnded == pc \in {"exec_ok", "exec_err", "done_ok", "done_err", "panicked"}

\* the execute_build task has ended
BuildEnded == pc \in {"done_ok", "done_err", "panicked"}

\* the executor is being, or has been, run inside execute
InExecute == pc \in {"exec_begin", "exec_loop", "exec_join", "exec_ok", "exec_err"}

\* some cancel_build call found the build Pending or Running and cancelled it
CancelApplied == \E c \in Callers : cancel_saw[c] \in {"Pending", "Running"}

\* step s ended without success, in the results or as the outcome join_next took
NonSuccess(s) ==
    \/ \E st \in {"Failed", "TimedOut", "Cancelled"} : HasStatus(results, s, st)
    \/ joined.step_id = s /\ joined.execution_result \in {"OkFailed", "Err"}

\* step s ended with success, in the results or as the outcome join_next took
StepSucceeded(s) ==
    \/ HasStatus(results, s, "Success")
    \/ joined.step_id = s /\ joined.execution_result = "OkSuccess"

\* some step depends on itself, directly or through other steps
HasCycle == \E s \in Steps : s \in TransitiveDependents(s)

\* some step names a dependency that is not the id of a step of the pipeline
NamesMissingStep == \E s \in Steps : ~ (dependencies[s] \subseteq Steps)

\* the terminal status step s has reached: in the results, or as the outcome
\* of its executor call that join_next took
TerminalStatusOf(s) ==
    {st \in {"Success", "Failed", "Skipped", "TimedOut", "Cancelled"} :
        \/ HasStatus(results, s, st)
        \/ /\ joined.step_id = s
           /\ joined.execution_result \in {"OkSuccess", "OkFailed", "Err"}
           /\ st = (IF joined.execution_result = "OkSuccess" THEN "Success"
                                                              ELSE "Failed")}

\* step s has no unmet dependency and no result yet
ReadyNow(s) ==
    /\ s \in Steps
    /\ \A d \in dependencies[s] : HasStatus(results, d, "Success")
    /\ ~HasResult(results, s)

\* the versions of artifact id among the metadata entries
VersionsOf(entries, id) ==
    {entries[k].version : k \in {j \in 1..Len(entries) : entries[j].id = id}}

\* the time version v of artifact id was created last
LastCreated(entries, id, v) ==
    LET times == {entries[k].created_at :
                     k \in {j \in 1..Len(entries) :
                               entries[j].id = id /\ entries[j].version = v}}
    IN  CHOOSE t \in times : \A u \in times : u <= t

\* the keep_n most recently created versions of artifact id
MostRecentVersions(entries, id, keep_n) ==
    {v \in VersionsOf(entries, id) :
        Cardinality({w \in VersionsOf(entries, id) :
                        LastCreated(entries, id, w) > LastCreated(entries, id, v)})
            < keep_n}

\* path starts and ends at the same step and follows dependency edges
IsCyclePath(path) ==
    /\ Len(path) >= 2
    /\ path[1] = path[Len(path)]
    /\ \A i \in 1..(Len(path) - 1) : path[i + 1] \in dependencies[path[i]]

ForwardOrSame(a, b) ==
    \/ a = b
    \/ a = "Pending" /\ b \in {"Running"} \cup TerminalBuildStatus
    \/ a = "Running" /\ b \in TerminalBuildStatus

(***************************************************************************)
(* Properties.                                                             *)
(***************************************************************************)
\* C1: for a pipeline that validates, when execute has ended it has returned
\* Ok and the results hold a StepResult of every step.
C1_ExecuteReturnsEveryResult ==
    (PipelineValidates /\ ExecuteEnded) =>
        /\ pc \in {"exec_ok", "done_ok"}
        /\ \A s \in Steps : HasResult(results, s)

C3_FailedStepSkipsDependents ==
    ExecuteEnded =>
        \A s \in Steps : NonSuccess(s) =>
            \A d \in TransitiveDependents(s) : HasStatus(results, d, "Skipped")

C5_SuccessIffAllSuccess ==
    (BuildEnded /\ ~CancelApplied) =>
        (StoredStatus = "Success" <=> \A s \in Steps : StepSucceeded(s))

\* C6: the stored build status only moves forward along Pending, Running,
\* terminal, and never changes once it is terminal.
C6_StatusOnlyMovesForward ==
    [][db_build # NoRow => ForwardOrSame(StoredStatus, StoredStatus')]_vars

\* C7: if cancel_build found the build Pending or Running, then once the
\* execution has ended the stored status is Cancelled.
C7_CancelledWhenEnded ==
    (BuildEnded /\ CancelApplied) => StoredStatus = "Cancelled"

\* C8: once cancel_build has been called while a step of the build was
\* running, no further step is handed to the executor.
C8_NoLaunchAfterCancel == [][cancel_in_flight => handed' = handed]_vars

\* C9: cancel_build on a terminal build returns Ok and leaves the stored build
\* unchanged, and after one cancel_build has returned every further one
\* leaves the stored build unchanged.
C9_CancelTerminalIsNoOp ==
    [][(StoredStatus \in TerminalBuildStatus
          \/ (\E c \in Callers : cancel_pc[c] = "returned"))
        => /\ db_build' = db_build
           /\ \A c \in Callers : cancel_result'[c] \in {"none", "Ok"}]_vars

\* every caller has returned Ok from a TimedOut build, which is stored as before
C9_Witness ==
    /\ \A c \in Callers : cancel_pc[c] = "returned" /\ cancel_result[c] = "Ok"
    /\ \E c \in Callers : cancel_saw[c] = "TimedOut"
    /\ db_build = [status |-> "timedout", completed_at |-> 1]

\* C10: a cancel_build call on a Running build, made while execute_build has
\* not ended and a step is in flight, can run to its return.
C10_CancelDoesNotWait ==
    \A c \in Callers :
        (cancel_pc[c] = "waiting" /\ StoredStatus = "Running" /\ InExecute
            /\ StepInFlight)
        => ENABLED CancelBuildBody(c)

\* C11: a later trigger_build call that has not returned yet, made while the
\* first build is executing a step, can take its next step towards returning
\* the Pending build: it does not wait for the step.
C11_TriggerDoesNotWait ==
    (trigger_pc \in {"get_pipeline", "create_build"} /\ InExecute /\ StepInFlight)
        => ENABLED (LaterTriggerGetPipeline \/ LaterTriggerCreateBuild)

\* C12: a pipeline whose dependency graph has a cycle is rejected by the cli
\* validator, by Config::validate and by execute, and none of its steps is
\* handed to the executor.
C12_CycleRejected ==
    HasCycle =>
        /\ cli_result # "ok"
        /\ config_result # "ok"
        /\ build_dependency_graph # "none"
        /\ pc \notin {"exec_loop", "exec_join", "exec_ok", "done_ok", "panicked"}
        /\ \A s \in StepIds : handed[s] = 0

\* a step that depends on itself, in a pipeline whose first step is on no
\* cycle and names no missing step: both validators and execute reported the cycle
C12_Witness ==
    /\ \E s \in Steps : s \in dependencies[s]
    /\ 1 \in Steps /\ 1 \notin TransitiveDependents(1)
    /\ ~MissingDependency
    /\ cli_result = "cycle"
    /\ config_result = "cycle"
    /\ exec_error = "cycle" /\ pc = "done_err"

\* C13: for a pipeline with a cycle or a missing dependency, trigger_build
\* stores no build row and spawns no execute_build.
C13_InvalidPipelineNotTriggered ==
    (MissingDependency \/ HasCycle) => (db_build = NoRow /\ pc = "idle")

\* C14: when execute has returned a validation or configuration error and no
\* cancel_build cancels the build, the stored status eventually is Failed.
C14_ErrorBuildBecomesFailed ==
    (exec_error # "none" /\ ~CancelApplied)
        ~> (StoredStatus = "Failed" \/ CancelApplied)

\* C15: a pipeline in which a step names a dependency that is no step of the
\* pipeline is rejected with the missing-dependency error, the error names such
\* a step and its missing dependency, and no step is handed to the executor.
C15_MissingDependencyRejected ==
    NamesMissingStep =>
        /\ build_dependency_graph = "missing_dependency"
        /\ MissingDependencyReport.step \in Steps
        /\ MissingDependencyReport.dep_id
              \in dependencies[MissingDependencyReport.step] \ Steps
        /\ exec_error \in {"none", "missing_dependency"}
        /\ cli_result \in {"none", "missing_dependency"}
        /\ config_result \in {"none", "missing_dependency"}
        /\ pc \notin {"exec_loop", "exec_join", "exec_ok", "done_ok", "panicked"}
        /\ \A s \in StepIds : handed[s] = 0

\* the second step names a missing dependency, the first step is ready to run:
\* execute and both validators returned the error, which names the second step
C15_Witness ==
    /\ numSteps = 2
    /\ dependencies[1] = {} /\ dependencies[2] = {NonExistentStep}
    /\ MissingDependencyReport = [step |-> 2, dep_id |-> NonExistentStep]
    /\ exec_error = "missing_dependency" /\ pc = "done_err"
    /\ cli_result = "missing_dependency"
    /\ config_result = "missing_dependency"

\* C16: a pipeline with zero steps fails validation in the cli validator and
\* in Config::validate, and execute does not return Ok for it.
C16_EmptyPipelineRejected ==
    numSteps = 0 =>
        /\ cli_result \in {"none", "empty"}
        /\ config_result \in {"none", "empty"}
        /\ pc \notin {"exec_ok", "done_ok"}

\* C17: when a step of a valid pipeline has failed and execute has ended,
\* execute has returned Ok, and every step that is no transitive dependent of
\* a failed step and whose dependencies all succeeded was handed to the
\* executor and has a result.
C17_FailureDoesNotAbort ==
    (PipelineValidates /\ ExecuteEnded /\ \E s \in Steps : NonSuccess(s)) =>
        /\ pc \in {"exec_ok", "done_ok"}
        /\ \A t \in Steps :
              (/\ ~NonSuccess(t)
               /\ \A s \in Steps : NonSuccess(s) => t \notin TransitiveDependents(s)
               /\ \A d \in dependencies[t] : StepSucceeded(d))
              => (handed[t] >= 1 /\ HasResult(results, t))

\* C18: when the executor has returned Err for a step, execute does not panic,
\* the step has the status Failed in the results, and execute, once ended,
\* has returned Ok.
C18_ExecutorErrorIsRecorded ==
    \A s \in Steps :
        (joined.step_id = s /\ joined.execution_result = "Err") =>
            /\ pc # "panicked"
            /\ HasStatus(results, s, "Failed")
            /\ ExecuteEnded => pc \in {"exec_ok", "done_ok"}

\* C19: a step that is still running when its timeout_seconds have passed
\* eventually has the status TimedOut in the results, with every step that
\* depends on it Skipped.
C19_OverrunStepTimesOut ==
    \A s \in StepIds :
        (deadline_passed[s] /\ join_set[s] = "running")
            ~> (/\ HasStatus(results, s, "TimedOut")
                /\ \A d \in TransitiveDependents(s) : HasStatus(results, d, "Skipped"))

\* C20: for every step that has reached a terminal status, that status has
\* been written to the store and a StepStatusUpdate with the step and that
\* status has been sent on the broadcast channel.
C20_TerminalStatusPublished ==
    \A s \in Steps : \A st \in TerminalStatusOf(s) :
        /\ [step_id |-> s, status |-> st] \in step_store
        /\ \E k \in 1..Len(status_tx) :
              status_tx[k].step_name = s /\ status_tx[k].status = st

C23_ReadyStepsInFlightTogether ==
    pc = "exec_join" =>
        \A s \in Steps : ReadyNow(s) => join_set[s] # "none"

\* two steps are inside the executor at the same time
C23_Witness ==
    /\ pc = "exec_join"
    /\ \E s, t \in Steps : s # t /\ join_set[s] = "running" /\ join_set[t] = "running"

\* C24: for every value of PipelineStatus, BuildStatus and StepStatus, parsing
\* the lowercase string the value is formatted to gives the value again, with
\* FromStr and with From<String>.
C24_ParseOfFormatIsIdentity ==
    conv.stage = "parsed" => conv.out = conv.status

\* the timed-out step status went through its string and From<String>
C24_Witness ==
    /\ conv.stage = "parsed"
    /\ conv.kind = "StepStatus"
    /\ conv.status = "TimedOut"
    /\ conv.text = "timedout"
    /\ conv.by = "From<String>"
    /\ conv.out = "TimedOut"

\* C25: for every value of the three enums, the conversion to i32 and back,
\* and the conversion to the protobuf enum and back, give the value again.
C25_WireRoundTrip ==
    conv.stage \in {"from_i32", "from_proto"} => conv.out = conv.status

\* C26: create_pipeline is all-or-nothing: a get_pipeline after a successful
\* create returns the pipeline with every step it was created with, and a
\* failed create leaves both tables as they were.
C26_CreatePipelineAllOrNothing ==
    /\ (db_tables.last_create.id # 0 /\ ~db_tables.last_create.ok) =>
          /\ db_tables.pipelines = db_tables.last_create.pipelines_before
          /\ db_tables.pipeline_steps = db_tables.last_create.pipeline_steps_before
    /\ (db_tables.last_get.id \in db_tables.pipelines) =>
          /\ db_tables.last_get.ok
          /\ db_tables.last_get.steps = db_tables.given[db_tables.last_get.id]

\* C27: after a cleanup with keep_last_n = n, the versions of every artifact
\* id that remain are its n most recently created ones, a retrieve of a removed
\* version fails and a retrieve of a kept version succeeds.
C27_CleanupKeepsMostRecent ==
    LET c == artifact_fs.last_cleanup
        r == artifact_fs.last_retrieve
    IN  c.keep_n # NoCleanup.keep_n =>
          /\ \A id \in ArtifactIds :
                VersionsOf(artifact_fs.active_artifacts, id)
                    = MostRecentVersions(c.before, id, c.keep_n)
          /\ (r.id # 0 /\ r.version \in VersionsOf(c.before, r.id)) =>
                (r.ok <=> r.version \in MostRecentVersions(c.before, r.id, c.keep_n))

\* C28: no stored artifact is a copy of a file outside the workspace
\* directory, and a store_artifact whose source path escapes the workspace
\* returns an error.
C28_NoArtifactFromOutsideWorkspace ==
    /\ \A f \in artifact_fs.files : PathStartsWith(f.from, workspace_path)
    /\ ~PathStartsWith(Resolve(PathJoin(workspace_path, artifact_fs.last_store.source_path)),
                       workspace_path)
          => ~artifact_fs.last_store.ok

\* C29: the list get_logs returns contains every entry whose log call had
\* returned when get_logs was called.
C29_LoggedEntriesAreReturned ==
    log_state.last_get.called =>
        \A e \in log_state.last_get.logged_before :
            \E k \in 1..Len(log_state.last_get.entries) :
                log_state.last_get.entries[k] = e

C31_OrphansReportedExactly ==
    (PipelineValidates /\ ExecuteEnded) =>
        (exec_error = "never_executed" <=> \E s \in Steps : ~HasResult(results, s))

\* C33: the path a validator reports with a cycle error starts and ends at the
\* same step and every step of it depends on the next one.
C33_ReportedCycleIsACycle ==
    /\ cli_result = "cycle" => IsCyclePath(cycle_report.cli)
    /\ config_result = "cycle" => IsCyclePath(cycle_report.core)

C35_RunLeavesFinishedEntry ==
    cli_app.run_pc \in {"returned_ok", "returned_err"} =>
        /\ DOMAIN cli_app.pipelines = {ThePipelineId}
        /\ LET entry == cli_app.pipelines[ThePipelineId]
               all_success == \A k \in 1..Len(results) : results[k].status = "Success"
           IN  /\ entry.state = (IF all_success THEN "Success" ELSE "Failed")
               /\ entry.end_time # NoneTime
        /\ ThePipelineId \notin list_active_pipelines(cli_app.pipelines)

\* C40: when update_step has left every step of a pipeline Success, Failed or
\* Cancelled, the pipeline is not Pending or Running, has an end_time and is
\* not among the active pipelines.
C40_FinishedStepsEndPipeline ==
    (/\ cli_app.last_call.op = "update_step"
     /\ cli_app.last_call.pipeline_id \in DOMAIN cli_app.pipelines
     /\ cli_app.last_call.step
            \in DOMAIN cli_app.pipelines[cli_app.last_call.pipeline_id].steps
     /\ \A s \in DOMAIN cli_app.pipelines[cli_app.last_call.pipeline_id].steps :
           cli_app.pipelines[cli_app.last_call.pipeline_id].steps[s]
               \in {"Success", "Failed", "Cancelled"})
    => LET entry == cli_app.pipelines[cli_app.last_call.pipeline_id]
       IN  /\ entry.state \notin {"Pending", "Running"}
           /\ entry.end_time # NoneTime
           /\ cli_app.last_call.pipeline_id
                  \notin list_active_pipelines(cli_app.pipelines)

\* C37: what the calls of LogStream::next have returned so far are the first
\* entries of the log file, in file order and each once, and when next
\* returned None every entry the file then held had been returned.
C37_StreamReturnsFileInOrder ==
    /\ Len(log_stream.returned) <= Len(log_state.file)
    /\ \A k \in 1..Len(log_stream.returned) :
          k <= Len(log_state.file) /\ log_stream.returned[k] = log_state.file[k]
    /\ log_stream.last_next.kind = "None" =>
          Len(log_stream.returned) = log_stream.last_next.file_len

\* C38: at most one clone_bare is in progress per key, and a key is in
\* active_operations only while a clone_bare call for it is in progress.
C38_EndedCloneFreesItsKey ==
    \A key \in RepoKeys :
        /\ Cardinality({c \in GitCallers : /\ git_ops.call[c].pc = "cloning"
                                           /\ git_ops.call[c].key = key}) <= 1
        /\ key \in git_ops.active_operations =>
              \E c \in GitCallers : /\ git_ops.call[c].pc = "cloning"
                                    /\ git_ops.call[c].key = key

\* C39: no two metadata entries have the same (id, version), and after a
\* cleanup with keep_last_n >= 1 the file of the most recently created version
\* of every artifact id is still there.
C39_OneEntryPerVersion ==
    /\ \A j, k \in 1..Len(artifact_fs.active_artifacts) :
          j # k =>
              \/ artifact_fs.active_artifacts[j].id # artifact_fs.active_artifacts[k].id
              \/ artifact_fs.active_artifacts[j].version
                    # artifact_fs.active_artifacts[k].version
    /\ artifact_fs.last_cleanup.keep_n >= 1 =>
          \A id \in ArtifactIds :
              \A v \in MostRecentVersions(artifact_fs.last_cleanup.before, id, 1) :
                  HasFile(artifact_fs.files, id, v)

====
